---- MODULE Spec2Model ----
(***************************************************************************)
(* State-machine model of SteemWebSocketServer (src/unnamed/part_004, the  *)
(* current revision of src/steem-bridge.js): the upstream pool with health *)
(* tracking and failover, the retrying caller, the slot and map caches,    *)
(* the admission pipeline, the subscription registry and the poll driver.  *)
(*                                                                         *)
(* The server is a single-threaded event loop.  One action is one run of   *)
(* a callback from the point the event loop enters it to the next await    *)
(* that really suspends (an upstream call, a timer): an await of an async  *)
(* function that settles without I/O only yields to the microtask queue,   *)
(* which no timer or socket callback can interleave with.                  *)
(*                                                                         *)
(* Wall-clock time is a counter of ticks.  The durations of the source are *)
(* scaled to a few ticks, keeping their order (the head TTL is the         *)
(* shortest window).  Timers (back-off, queue delay, poll period) fire at  *)
(* any time after they are set.                                            *)
(*                                                                         *)
(* Not modelled: the response-time average of an endpoint (it stays 0, so  *)
(* the failover's sort falls through to the endpoints' index order when    *)
(* health and error count tie) and the payloads of frames beyond the head  *)
(* height and the endpoint a value came from.                              *)
(***************************************************************************)
EXTENDS Integers, Sequences, FiniteSets, TLC

VARIABLES
    now,               \* Date.now()
    nodeHead,          \* the upstream: each endpoint's own head height
    budget,            \* how many more environment events a run may hold
    currentNodeIndex,  \* this.currentNodeIndex (and this.steemClient)
    nodeHealth,        \* this.nodeHealth
    cache,             \* this.cache
    subscribers,       \* this.subscribers
    readyState,        \* ws.readyState of every session
    rate,              \* ws.messageCount, ws.lastReset
    requestQueue,      \* this.requestQueue
    isProcessingQueue, \* this.isProcessingQueue
    tasks,             \* the suspended async functions: queue drainer, poll iterations
    probe,             \* the health probe's suspended callback
    lastProcessedBlock,\* this.lastProcessedBlock
    sent,              \* frames written by the last step, in order
    events,            \* what the last step did besides writing frames: cache reads, failovers
    lastTwo,           \* per session and feed, the last two update heights delivered
    admitted           \* per session, the arrival times of the frames answered without error

vars == <<now, nodeHead, budget, currentNodeIndex, nodeHealth, cache, subscribers,
          readyState, rate, requestQueue, isProcessingQueue, tasks, probe,
          lastProcessedBlock, sent, events, lastTwo, admitted>>

----------------------------------------------------------------------------
(* Program constants.  The source values are given; the model scales them. *)

\* steemNodes.length (10 in the source)
NumNodes == 2
\* callSteemAPI(method, params, maxRetries = 3)
MaxRetries == 3
\* cache.globalTTL, 3000 ms
GlobalTTL == 1
\* cache.witnessTTL, 300000 ms
WitnessTTL == 2
\* cache.blockTTL, 300000 ms
BlockTTL == 2
\* the recovery window of switchToHealthyNode, 60000 ms
RecoveryWindow == 2
\* the rate window of ws.on("message"), 60000 ms
RateWindow == 2
\* ws.maxMessagesPerMinute (2000 in the source)
MaxMessagesPerMinute == 2
\* cache.maxCacheSize (1000 in the source)
MaxCacheSize == 2
\* this.maxQueueSize (1000 in the source)
MaxQueueSize == 2
\* the connection cap of wss.on("connection") (100 in the source)
ConnectionCap == 2

(* Bounds of the model. *)
NumSessions == 3
MaxHeight == 2
NumPollSlots == 2
\* Date.now() at construction: later than every window, as the epoch is
StartTime == 3

Nodes == 0 .. (NumNodes - 1)
Sessions == 1 .. NumSessions
\* the sessions of the scenarios that stay below the connection cap
TwoSessions == {1, 2}
Heights == 1 .. MaxHeight
Drainer == 0
PollIds == 1 .. NumPollSlots
TaskIds == {Drainer} \cup PollIds

Feeds == {"global_properties", "blocks", "block_headers", "operations", "witnesses"}
WitnessLists == {1, 2}
ErrKinds == {"timeout", "rpc"}

\* a payload: what an upstream returned (h: the height or list it names) and
\* the endpoint it came from; NullVal is JavaScript's null / undefined
NullVal == [h |-> 0, src |-> -1]
Val(h, n) == [h |-> h, src |-> n]


----------------------------------------------------------------------------
(* The program state as one value, so that the statements of a callback    *)
(* compose: each operator below maps the state before a statement to the   *)
(* state after it.                                                         *)

State ==
    [now |-> now, nodeHead |-> nodeHead, budget |-> budget,
     cur |-> currentNodeIndex, health |-> nodeHealth, cache |-> cache,
     subs |-> subscribers, rs |-> readyState, rate |-> rate,
     queue |-> requestQueue, busy |-> isProcessingQueue, tasks |-> tasks,
     probe |-> probe, lpb |-> lastProcessedBlock,
     sent |-> <<>>, events |-> <<>>, lastTwo |-> lastTwo, admitted |-> admitted]

Apply(S) ==
    \E T \in {S} :
    /\ now' = T.now
    /\ nodeHead' = T.nodeHead
    /\ budget' = T.budget
    /\ currentNodeIndex' = T.cur
    /\ nodeHealth' = T.health
    /\ cache' = T.cache
    /\ subscribers' = T.subs
    /\ readyState' = T.rs
    /\ rate' = T.rate
    /\ requestQueue' = T.queue
    /\ isProcessingQueue' = T.busy
    /\ tasks' = T.tasks
    /\ probe' = T.probe
    /\ lastProcessedBlock' = T.lpb
    /\ sent' = T.sent
    /\ events' = T.events
    /\ lastTwo' = T.lastTwo
    /\ admitted' = T.admitted

IdleTask ==
    [pc |-> "idle", op |-> "none", h |-> 0, virt |-> FALSE, attempt |-> 0,
     node |-> 0, t0 |-> 0, prior |-> NullVal, ws |-> 0, method |-> "none",
     id |-> "absent", at |-> 0, win |-> 0, prev |-> 0, blk |-> 0, detected |-> FALSE,
     got |-> [f \in Feeds |-> {}], owed |-> [f \in Feeds |-> {}],
     gotLegacy |-> {}, failed |-> {}, wait |-> 0]

\* globalStoredAt is a history field: the clock at the assignment that stored the
\* head-state slot's value (lastGlobalUpdate is the timestamp the code keeps)
EmptyCache ==
    [globalProperties |-> NullVal, activeWitnesses |-> NullVal,
     blockHeaders |-> <<>>, blocks |-> <<>>, operations |-> <<>>,
     lastGlobalUpdate |-> 0, lastWitnessUpdate |-> 0, globalStoredAt |-> 0]

----------------------------------------------------------------------------
(* Frames *)

IsUpdate(f) == f.type = "subscription_update"

\* ws.send(frame): the frame reaches the peer only on an open socket
SendFrame(S, s, type, tag, data) ==
    IF S.rs[s] # "OPEN" THEN S
    ELSE LET S1 == [S EXCEPT !.sent = Append(@, [to |-> s, type |-> type, tag |-> tag, data |-> data])]
         IN IF type = "subscription_update"
            THEN [S1 EXCEPT !.lastTwo[s][tag] = <<@[2], data.h>>]
            ELSE S1

\* a variant of the reply that is delivered whatever the state of the socket
SendReplyAnyState(S, s, type, tag, data, id) ==
    [S EXCEPT !.sent = Append(@, [to |-> s, type |-> type, tag |-> tag,
                                  data |-> data, id |-> id])]

\* ws.send of a reply: a response or an error frame of handleMessage, which has
\* an id key (an update, a broadcast and the connection handlers' errors have none)
SendReply(S, s, type, tag, data, id) ==
    IF S.rs[s] # "OPEN" THEN S
    ELSE [S EXCEPT !.sent = Append(@, [to |-> s, type |-> type, tag |-> tag,
                                       data |-> data, id |-> id])]

RECURSIVE SendAll(_, _, _, _, _)
\* the same frame to every session of targets, in ascending order
SendAll(S, targets, type, tag, data) ==
    IF targets = {} THEN S
    ELSE LET s == CHOOSE x \in targets : \A y \in targets : x <= y
         IN SendAll(SendFrame(S, s, type, tag, data), targets \ {s}, type, tag, data)

----------------------------------------------------------------------------
(* Upstream pool *)

\* clearCache()
clearCache(S) == [S EXCEPT !.cache = EmptyCache]

\* the filter of switchToHealthyNode: healthy, or last error older than the window
\* (lastError is null until the first error: Date.now() - null is Date.now())
IsEligible(S, n) ==
    \/ S.health[n].healthy
    \/ S.now - S.health[n].lastError > RecoveryWindow

Eligible(S) == {n \in DOMAIN S.health : IsEligible(S, n)}

\* the comparator of switchToHealthyNode's sort; Array.prototype.sort is stable,
\* so equal entries keep their index order
RanksBefore(S, a, b) ==
    LET ha == S.health[a]
        hb == S.health[b]
    IN IF ha.healthy # hb.healthy THEN ha.healthy
       ELSE IF ha.errorCount # hb.errorCount THEN ha.errorCount < hb.errorCount
       ELSE IF ha.avgResponseTime # hb.avgResponseTime
            THEN ha.avgResponseTime < hb.avgResponseTime
       ELSE a < b

\* a variant of the selection that takes the first endpoint that passes the filter
FirstNode(S, E) == CHOOSE n \in E : \A m \in E : n <= m

\* healthyNodes[0]
BestNode(S, E) == CHOOSE n \in E : \A m \in E \ {n} : RanksBefore(S, n, m)

\* switchToHealthyNode()
switchToHealthyNode(S) ==
    LET c == S.cur
        S1 == [S EXCEPT !.health[c].healthy = FALSE,
                        !.health[c].lastError = S.now,
                        !.health[c].errorCount = @ + 1]
        E == Eligible(S1)
    IN IF E = {} THEN S1
       ELSE clearCache([S1 EXCEPT !.cur = BestNode(S1, E)])

\* switchNode(): round robin; it clears the two slots and leaves the maps
switchNode(S) ==
    [S EXCEPT !.cur = (S.cur + 1) % NumNodes,
              !.cache.globalProperties = NullVal,
              !.cache.activeWitnesses = NullVal,
              !.cache.lastGlobalUpdate = 0,
              !.cache.lastWitnessUpdate = 0,
              !.cache.globalStoredAt = 0]

\* a failover after a call to endpoint `failed` threw, with a note of the endpoints
\* that were eligible and of the endpoint the next call will go to
failoverHealthy(S, failed) ==
    LET S1 == switchToHealthyNode(S)
    IN [S1 EXCEPT !.events = Append(@,
            [kind |-> "failover", slot |-> "switchToHealthyNode",
             prior |-> Val(Cardinality(Eligible(S1)), failed), result |-> Val(0, S1.cur)])]

failoverNext(S, failed) ==
    LET S1 == switchNode(S)
    IN [S1 EXCEPT !.events = Append(@,
            [kind |-> "failover", slot |-> "switchNode",
             prior |-> Val(Cardinality(Eligible(S)), failed), result |-> Val(0, S1.cur)])]

\* what endpoint n answers to a read, when it answers (w: the witness list it holds)
UpstreamResult(S, op, h, n, w) ==
    CASE op = "getDynamicGlobalProperties" -> Val(S.nodeHead[n], n)
      [] op = "getActiveWitnesses" -> Val(w, n)
      [] op \in {"getBlockHeader", "getBlock"} ->
            IF h <= S.nodeHead[n] THEN Val(h, n) ELSE NullVal
      [] OTHER -> Val(h, n)

----------------------------------------------------------------------------
(* Cache layer: a Map is the sequence of its entries in insertion order *)

Key(h, virt) == [h |-> h, virt |-> virt]

MapIndex(map, key) ==
    IF \E i \in DOMAIN map : map[i].key = key
    THEN CHOOSE i \in DOMAIN map : map[i].key = key
    ELSE 0

RemoveAt(map, i) == [j \in 1 .. (Len(map) - 1) |-> IF j < i THEN map[j] ELSE map[j + 1]]

\* Map.prototype.set: a present key keeps its place
MapSet(map, key, value, t) ==
    LET i == MapIndex(map, key)
        e == [key |-> key, value |-> value, timestamp |-> t]
    IN IF i = 0 THEN Append(map, e) ELSE [map EXCEPT ![i] = e]

\* a variant of setCacheItem that never evicts
setCacheItemUnbounded(map, key, value, t) == MapSet(map, key, value, t)

\* a variant of setCacheItem that evicts the entry inserted last
setCacheItemEvictsNewest(map, key, value, t) ==
    MapSet(IF Len(map) >= MaxCacheSize THEN SubSeq(map, 1, Len(map) - 1) ELSE map,
           key, value, t)

\* setCacheItem(map, key, value)
setCacheItem(map, key, value, t) ==
    LET m1 == IF Len(map) >= MaxCacheSize THEN Tail(map) ELSE map
    IN MapSet(m1, key, value, t)

\* getCacheItem(map, key, ttl): the map afterwards
getCacheItemMap(map, key, ttl, t) ==
    LET i == MapIndex(map, key)
    IN IF i # 0 /\ t - map[i].timestamp > ttl THEN RemoveAt(map, i) ELSE map

\* getCacheItem(map, key, ttl): TRUE when it counts a hit
getCacheItemHit(map, key, ttl, t) ==
    LET i == MapIndex(map, key)
    IN i # 0 /\ ~(t - map[i].timestamp > ttl)

\* getCacheItem(map, key, ttl): the value returned (null on a miss)
getCacheItemValue(map, key, ttl, t) ==
    IF getCacheItemHit(map, key, ttl, t) THEN map[MapIndex(map, key)].value ELSE NullVal

\* the cache map a block-level read uses
MapOf(op) ==
    CASE op = "getBlockHeader" -> "blockHeaders"
      [] op = "getBlock" -> "blocks"
      [] OTHER -> "operations"

Note(S, kind, slot, prior, result) ==
    [S EXCEPT !.events = Append(@, [kind |-> kind, slot |-> slot, prior |-> prior, result |-> result])]

----------------------------------------------------------------------------
(* Subscription registry *)

\* broadcastToSubscribers(subscriberSet, message, subscriptionType)
\* a variant of the broadcast that passes over the sessions at their frame cap
broadcastToSubscribersRateLimited(S, feed, data) ==
    LET open == {s \in S.subs[feed] : S.rs[s] = "OPEN"}
        under == {s \in open : S.rate[s].messageCount < MaxMessagesPerMinute}
        S1 == SendAll(S, under, "subscription_update", feed, data)
    IN [S1 EXCEPT !.subs[feed] = open]

\* a variant of the broadcast that leaves the dead connections in the set
broadcastToSubscribersKeepsDead(S, feed, data) ==
    SendAll(S, {s \in S.subs[feed] : S.rs[s] = "OPEN"}, "subscription_update", feed, data)

broadcastToSubscribers(S, feed, data) ==
    LET open == {s \in S.subs[feed] : S.rs[s] = "OPEN"}
        S1 == SendAll(S, open, "subscription_update", feed, data)
    IN [S1 EXCEPT !.subs[feed] = open]

\* the poll iteration p notes which sessions a feed's broadcast reached
PollBroadcast(S, p, feed, data) ==
    LET open == {s \in S.subs[feed] : S.rs[s] = "OPEN"}
    IN [broadcastToSubscribers(S, feed, data) EXCEPT !.tasks[p].got[feed] = @ \cup open]

\* a session that leaves a feed is owed no update of it by a running iteration
Forget(S, s, feeds) ==
    [S EXCEPT !.tasks = [t \in TaskIds |->
        [S.tasks[t] EXCEPT !.owed = [f \in Feeds |->
            IF f \in feeds THEN S.tasks[t].owed[f] \ {s} ELSE S.tasks[t].owed[f]]]]]

----------------------------------------------------------------------------
(* Cached reads.  A read either returns or throws in the same step (done),  *)
(* or leaves its task suspended in an upstream call.                       *)

Ret(S, val) == [S |-> S, done |-> TRUE, ok |-> TRUE, val |-> val, err |-> "none"]
Thr(S, err) == [S |-> S, done |-> TRUE, ok |-> FALSE, val |-> NullVal, err |-> err]
Susp(S) == [S |-> S, done |-> FALSE, ok |-> FALSE, val |-> NullVal, err |-> "none"]

\* callSteemAPI entered by task t: the first attempt goes to the current endpoint
IssueCall(S, t, op, h, virt, prior) ==
    [S EXCEPT !.tasks[t].pc = "call", !.tasks[t].op = op, !.tasks[t].h = h,
              !.tasks[t].virt = virt, !.tasks[t].attempt = 1,
              !.tasks[t].node = S.cur, !.tasks[t].t0 = S.now,
              !.tasks[t].prior = prior]

\* getDynamicGlobalProperties(), up to its await
getDynamicGlobalPropertiesStart(S, t) ==
    IF /\ S.cache.globalProperties # NullVal
       /\ S.now - S.cache.lastGlobalUpdate < GlobalTTL
    THEN Ret(Note(S, "hit", "global", S.cache.globalProperties, S.cache.globalProperties),
             S.cache.globalProperties)
    ELSE Susp(IssueCall(Note(S, "refresh", "global", S.cache.globalProperties, NullVal),
                        t, "getDynamicGlobalProperties", 0, FALSE, S.cache.globalProperties))

\* getActiveWitnesses(), up to its await
getActiveWitnessesStart(S, t) ==
    IF /\ S.cache.activeWitnesses # NullVal
       /\ S.now - S.cache.lastWitnessUpdate < WitnessTTL
    THEN Ret(Note(S, "hit", "witness", S.cache.activeWitnesses, S.cache.activeWitnesses),
             S.cache.activeWitnesses)
    ELSE Susp(IssueCall(S, t, "getActiveWitnesses", 0, FALSE, S.cache.activeWitnesses))

\* getBlockHeader / getBlock / getOpsInBlock, up to the await: `if (cached) return cached`
getBlockLevelStart(S, t, op, h, virt) ==
    LET name == MapOf(op)
        map == S.cache[name]
        k == Key(h, virt)
        hit == getCacheItemHit(map, k, BlockTTL, S.now)
        v == getCacheItemValue(map, k, BlockTTL, S.now)
        S1 == [S EXCEPT !.cache[name] = getCacheItemMap(map, k, BlockTTL, S.now)]
        S2 == Note(S1, IF hit THEN "hit" ELSE "miss", name, v, v)
    IN IF v # NullVal THEN Ret(S2, v) ELSE Susp(IssueCall(S2, t, op, h, virt, NullVal))

\* a read method called by task t
ReadStart(S, t, op, h, virt) ==
    CASE op = "getDynamicGlobalProperties" -> getDynamicGlobalPropertiesStart(S, t)
      [] op = "getActiveWitnesses" -> getActiveWitnessesStart(S, t)
      [] op \in {"getBlockHeader", "getBlock", "getOpsInBlock"} ->
            getBlockLevelStart(S, t, op, h, virt)
      [] OTHER -> Susp(IssueCall(S, t, op, h, FALSE, NullVal))

\* getDynamicGlobalProperties() after callSteemAPI returned (r.ok) or threw
getDynamicGlobalPropertiesEnd(S, t, r) ==
    LET T == S.tasks[t]
    IN IF r.ok
       THEN Ret(Note([S EXCEPT !.cache.globalProperties = r.val,
                               !.cache.lastGlobalUpdate = T.t0,
                               !.cache.globalStoredAt = S.now],
                     "miss", "global", T.prior, r.val), r.val)
       ELSE IF S.cache.globalProperties # NullVal
            THEN Ret(Note(S, "stale", "global", T.prior, S.cache.globalProperties),
                     S.cache.globalProperties)
            ELSE Thr(Note(S, "throw", "global", T.prior, NullVal), r.err)

\* a variant of the witness refresh that broadcasts every list it stores
getActiveWitnessesEndAlways(S, t, r) ==
    LET T == S.tasks[t]
        S1 == [S EXCEPT !.cache.activeWitnesses = r.val,
                        !.cache.lastWitnessUpdate = T.t0]
        S2 == IF S1.subs["witnesses"] # {}
              THEN broadcastToSubscribers(S1, "witnesses", r.val)
              ELSE S1
    IN IF r.ok
       THEN Ret(Note(S2, "miss", "witness", T.prior, r.val), r.val)
       ELSE IF S.cache.activeWitnesses # NullVal
            THEN Ret(Note(S, "stale", "witness", T.prior, S.cache.activeWitnesses),
                     S.cache.activeWitnesses)
            ELSE Thr(Note(S, "throw", "witness", T.prior, NullVal), r.err)

\* getActiveWitnesses() after callSteemAPI returned or threw
getActiveWitnessesEnd(S, t, r) ==
    LET T == S.tasks[t]
        previousWitnesses == S.cache.activeWitnesses
        S1 == [S EXCEPT !.cache.activeWitnesses = r.val,
                        !.cache.lastWitnessUpdate = T.t0]
        S2 == IF S1.subs["witnesses"] # {} /\ previousWitnesses.h # r.val.h
              THEN broadcastToSubscribers(S1, "witnesses", r.val)
              ELSE S1
    IN IF r.ok
       THEN Ret(Note(S2, "miss", "witness", T.prior, r.val), r.val)
       ELSE IF S.cache.activeWitnesses # NullVal
            THEN Ret(Note(S, "stale", "witness", T.prior, S.cache.activeWitnesses),
                     S.cache.activeWitnesses)
            ELSE Thr(Note(S, "throw", "witness", T.prior, NullVal), r.err)

\* getBlockHeader / getBlock / getOpsInBlock after callSteemAPI returned or threw.
\* The log line after the store reads result.transactions (getBlock) or
\* result.length (getOpsInBlock): on a null result it throws a TypeError
getBlockLevelEnd(S, t, r) ==
    LET T == S.tasks[t]
        name == MapOf(T.op)
        map == setCacheItem(S.cache[name], Key(T.h, T.virt), r.val, S.now)
        S1 == Note([S EXCEPT !.cache[name] = map], "store", name,
                   Val(Len(S.cache[name]), r.val.src), Val(Len(map), r.val.src))
    IN IF ~r.ok THEN Thr(S, r.err)
       ELSE IF T.op \in {"getBlock", "getOpsInBlock"} /\ r.val = NullVal
       THEN Thr(S1, "type")
       ELSE Ret(S1, r.val)

ReadEnd(S, t, r) ==
    LET op == S.tasks[t].op
    IN CASE op = "getDynamicGlobalProperties" -> getDynamicGlobalPropertiesEnd(S, t, r)
         [] op = "getActiveWitnesses" -> getActiveWitnessesEnd(S, t, r)
         [] op \in {"getBlockHeader", "getBlock", "getOpsInBlock"} -> getBlockLevelEnd(S, t, r)
         [] OTHER -> IF r.ok THEN Ret(S, r.val) ELSE Thr(S, r.err)

\* a variant of the retrying caller that fails over after the last attempt too
callSteemAPIEndEager(S, t, r) ==
    LET T == S.tasks[t]
    IN IF r.ok
       THEN ReadEnd([S EXCEPT !.health[T.node].healthy = TRUE], t, r)
       ELSE LET S1 == [S EXCEPT !.health[T.node].errorCount = @ + 1,
                                !.health[T.node].lastError = S.now]
            IN IF T.attempt < MaxRetries
               THEN Susp([failoverHealthy(S1, T.node) EXCEPT !.tasks[t].pc = "backoff",
                                                             !.tasks[t].wait = T.attempt])
               ELSE ReadEnd(failoverHealthy(S1, T.node), t, r)

\* callSteemAPI after the awaited upstream call of task t settled. tasks[t].wait is
\* the delay of the back-off timer, in seconds (setTimeout(resolve, 1000 * attempt))
callSteemAPIEnd(S, t, r) ==
    LET T == S.tasks[t]
    IN IF r.ok
       THEN ReadEnd([S EXCEPT !.health[T.node].healthy = TRUE], t, r)
       ELSE LET S1 == [S EXCEPT !.health[T.node].errorCount = @ + 1,
                                !.health[T.node].lastError = S.now]
            IN IF T.attempt < MaxRetries
               THEN Susp([failoverHealthy(S1, T.node) EXCEPT !.tasks[t].pc = "backoff",
                                                             !.tasks[t].wait = T.attempt])
               ELSE ReadEnd(S1, t, r)

----------------------------------------------------------------------------
(* Request dispatcher and work queue *)

\* the read methods in bare form, and the namespace of each one's prefixed form
BareReads ==
    {"get_dynamic_global_properties", "get_block_header", "get_block", "get_ops_in_block",
     "get_active_witnesses", "get_transaction", "get_ticker", "get_order_book",
     "get_recent_trades", "get_accounts", "get_market_history", "get_account_history",
     "get_witnesses_by_vote", "get_vesting_delegations"}

Namespace(b) ==
    IF b \in {"get_ticker", "get_order_book", "get_recent_trades", "get_market_history"}
    THEN "market_history_api" ELSE "condenser_api"

Prefixed(b) == Namespace(b) \o "." \o b

\* a variant of the method switch without the namespaced case labels
ReadOpBareOnly(m) ==
    CASE m = "get_dynamic_global_properties" -> "getDynamicGlobalProperties"
      [] m = "get_block_header" -> "getBlockHeader"
      [] m = "get_block" -> "getBlock"
      [] m = "get_ops_in_block" -> "getOpsInBlock"
      [] m = "get_active_witnesses" -> "getActiveWitnesses"
      [] m = "get_transaction" -> "getTransaction"
      [] m = "get_ticker" -> "getTicker"
      [] m = "get_order_book" -> "getOrderBook"
      [] m = "get_recent_trades" -> "getRecentTrades"
      [] m = "get_accounts" -> "getAccounts"
      [] m = "get_market_history" -> "getMarketHistory"
      [] m = "get_account_history" -> "getAccountHistory"
      [] m = "get_witnesses_by_vote" -> "getWitnessesByVote"
      [] m = "get_vesting_delegations" -> "getVestingDelegations"
      [] OTHER -> "none"

\* the method switch of handleMessage: the read a method name routes to
ReadOp(m) ==
    CASE m \in {"get_dynamic_global_properties", "condenser_api.get_dynamic_global_properties"}
            -> "getDynamicGlobalProperties"
      [] m \in {"get_block_header", "condenser_api.get_block_header"} -> "getBlockHeader"
      [] m \in {"get_block", "condenser_api.get_block"} -> "getBlock"
      [] m \in {"get_ops_in_block", "condenser_api.get_ops_in_block"} -> "getOpsInBlock"
      [] m \in {"get_active_witnesses", "condenser_api.get_active_witnesses"}
            -> "getActiveWitnesses"
      [] m \in {"get_transaction", "condenser_api.get_transaction"} -> "getTransaction"
      [] m \in {"get_ticker", "market_history_api.get_ticker"} -> "getTicker"
      [] m \in {"get_order_book", "market_history_api.get_order_book"} -> "getOrderBook"
      [] m \in {"get_recent_trades", "market_history_api.get_recent_trades"}
            -> "getRecentTrades"
      [] m \in {"get_accounts", "condenser_api.get_accounts"} -> "getAccounts"
      [] m \in {"get_market_history", "market_history_api.get_market_history"}
            -> "getMarketHistory"
      [] m \in {"get_account_history", "condenser_api.get_account_history"}
            -> "getAccountHistory"
      [] m \in {"get_witnesses_by_vote", "condenser_api.get_witnesses_by_vote"}
            -> "getWitnessesByVote"
      [] m \in {"get_vesting_delegations", "condenser_api.get_vesting_delegations"}
            -> "getVestingDelegations"
      [] OTHER -> "none"

\* the reads that throw "... required" on a falsy params[0] (getAccounts: not an
\* array; getMarketHistory: fewer than three params)
NeedsArg(op) ==
    op \in {"getBlockHeader", "getBlock", "getOpsInBlock", "getTransaction",
            "getAccounts", "getMarketHistory", "getAccountHistory",
            "getVestingDelegations"}

SubscribeFeed(m) ==
    CASE m = "subscribe_global_properties" -> "global_properties"
      [] m = "subscribe_blocks" -> "blocks"
      [] m = "subscribe_block_headers" -> "block_headers"
      [] m = "subscribe_operations" -> "operations"
      [] m = "subscribe_witnesses" -> "witnesses"
      [] OTHER -> "none"

UnsubscribeFeed(m) ==
    CASE m = "unsubscribe_global_properties" -> "global_properties"
      [] m = "unsubscribe_blocks" -> "blocks"
      [] m = "unsubscribe_block_headers" -> "block_headers"
      [] m = "unsubscribe_operations" -> "operations"
      [] m = "unsubscribe_witnesses" -> "witnesses"
      [] OTHER -> "none"

\* the slot whose value a subscribe sends at once (none for the derived feeds)
SlotOf(S, feed) ==
    CASE feed = "global_properties" -> S.cache.globalProperties
      [] feed = "witnesses" -> S.cache.activeWitnesses
      [] OTHER -> NullVal

AddAdmit(bag, e) ==
    IF e \in DOMAIN bag THEN [bag EXCEPT ![e] = @ + 1]
    ELSE [x \in DOMAIN bag \cup {e} |-> IF x = e THEN 1 ELSE bag[x]]

\* a frame of type "response" to the session whose request the drainer handles
Respond(S, tag, data) ==
    LET T == S.tasks[Drainer]
        S1 == SendReply(S, T.ws, "response", tag, data, T.id)
    IN IF S.rs[T.ws] = "OPEN"
       THEN [S1 EXCEPT !.admitted[T.ws] = AddAdmit(@, <<T.win, T.at>>)]
       ELSE S1

\* an error outcome of a frame of session s, and whether s was open to be told
Failed(S, s, kind) ==
    Note(S, "error", kind, Val(s, IF S.rs[s] = "OPEN" THEN 1 ELSE 0), NullVal)

\* const errorId = id || "unknown": a request's id is a number ("7"), the number
\* zero ("0") or not there at all ("absent")
ErrorId(id) == IF id \in {"0", "absent"} THEN "unknown" ELSE id

\* processQueue: handleMessage has returned; the loop awaits its 10 ms timer
AwaitDelay(S) == [S EXCEPT !.tasks[Drainer].pc = "delay"]

\* errorMessage.includes("network") || errorMessage.includes("timeout"), where the
\* message is the text of an upstream error or `Unsupported method: ${method}`
MentionsNetworkOrTimeout(err, method) ==
    \/ err \in {"network", "timeout"}
    \/ err = "unsupported" /\ method \in {"get_network_info", "set_timeout"}

\* handleMessage after the read it awaited returned (the reply) or threw (the catch)
handleMessageEnd(S, r) ==
    LET T == S.tasks[Drainer]
    IN IF r.ok
       THEN AwaitDelay(Respond(S, T.method, r.val))
       ELSE LET S1 == IF MentionsNetworkOrTimeout(r.err, T.method)
                       THEN failoverNext(S, T.node) ELSE S
            IN AwaitDelay(SendReply(Failed(S1, T.ws, r.err), T.ws, "error", T.method,
                                    NullVal, ErrorId(T.id)))

\* a variant of the subscribe case that acknowledges and sends no current value
handleSubscribeAckOnly(S, ws, method) ==
    Respond([S EXCEPT !.subs[SubscribeFeed(method)] = @ \cup {ws}], method, NullVal)

\* case "subscribe_*"
handleSubscribe(S, ws, method) ==
    LET feed == SubscribeFeed(method)
        S1 == Respond([S EXCEPT !.subs[feed] = @ \cup {ws}], method, NullVal)
    IN IF SlotOf(S1, feed) # NullVal
       THEN SendFrame(S1, ws, "subscription_update", feed, SlotOf(S1, feed))
       ELSE S1

\* a variant of the unsubscribe case that refuses a session that is no member
handleUnsubscribeStrict(S, ws, method) ==
    IF ws \in S.subs[UnsubscribeFeed(method)]
    THEN Respond(Forget([S EXCEPT !.subs[UnsubscribeFeed(method)] = @ \ {ws}], ws,
                        {UnsubscribeFeed(method)}), method, NullVal)
    ELSE SendReply(S, ws, "error", method, NullVal, S.tasks[Drainer].id)

\* case "unsubscribe_*"
handleUnsubscribe(S, ws, method) ==
    LET feed == UnsubscribeFeed(method)
    IN Respond(Forget([S EXCEPT !.subs[feed] = @ \ {ws}], ws, {feed}), method, NullVal)

\* handleMessage(ws, data), up to its first await
handleMessage(S, e) ==
    IF e.method = "<null>"
    THEN AwaitDelay(Failed(S, e.ws, "null_frame"))
    ELSE IF e.method = ""
    THEN AwaitDelay(SendReply(Failed(S, e.ws, "missing_method"), e.ws, "error", "",
                              NullVal, e.id))
    ELSE IF SubscribeFeed(e.method) # "none"
    THEN AwaitDelay(handleSubscribe(S, e.ws, e.method))
    ELSE IF UnsubscribeFeed(e.method) # "none"
    THEN AwaitDelay(handleUnsubscribe(S, e.ws, e.method))
    ELSE IF ReadOp(e.method) = "none"
    THEN handleMessageEnd(S, Thr(S, "unsupported"))
    ELSE IF NeedsArg(ReadOp(e.method)) /\ e.h = 0
    THEN handleMessageEnd(S, Thr(S, "required"))
    ELSE LET R == ReadStart(S, Drainer, ReadOp(e.method), e.h, e.virt)
         IN IF R.done THEN handleMessageEnd(R.S, R) ELSE R.S

\* one turn of processQueue's loop: shift an entry, handle it if its session is open
DrainNext(S) ==
    LET e == Head(S.queue)
        S1 == [S EXCEPT !.queue = Tail(@),
                        !.tasks[Drainer] = [IdleTask EXCEPT !.ws = e.ws, !.method = e.method,
                                                            !.id = e.id,
                                                            !.at = e.at, !.win = e.win]]
    IN IF S1.rs[e.ws] = "OPEN" THEN handleMessage(S1, e) ELSE AwaitDelay(S1)

\* a variant of processQueue that starts a drain whether or not one is running
processQueueReentrant(S) ==
    IF S.queue = <<>> THEN S
    ELSE DrainNext([S EXCEPT !.busy = TRUE])

\* processQueue()
processQueue(S) ==
    IF S.busy \/ S.queue = <<>> THEN S
    ELSE DrainNext([S EXCEPT !.busy = TRUE])

\* the queue entry { ws, data } of a parsed frame, with its arrival noted
Entry(s, frame, t, win) ==
    [ws |-> s, method |-> frame.method, h |-> frame.h, virt |-> frame.virt,
     id |-> frame.id, at |-> t, win |-> win]

\* an error frame of the connection's message handler
Refuse(S, s, tag, data) == SendFrame(Failed(S, s, tag), s, "error", tag, data)

\* a variant of the message handler that counts frames and rejects none for rate
onMessageUnlimited(S, s, frame) ==
    LET r0 == S.rate[s]
        r1 == IF S.now - r0.lastReset > RateWindow
              THEN [messageCount |-> 0, lastReset |-> S.now]
              ELSE r0
        r2 == [r1 EXCEPT !.messageCount = @ + 1]
        S1 == [S EXCEPT !.rate[s] = r2]
    IN IF frame.method = "<invalid json>"
       THEN Refuse(S1, s, "invalid_json", NullVal)
       ELSE IF Len(S1.queue) < MaxQueueSize
       THEN processQueue([S1 EXCEPT !.queue = Append(@, Entry(s, frame, S.now, r2.lastReset))])
       ELSE Refuse(S1, s, "queue_full", NullVal)

\* a variant of the message handler that admits a frame into a full queue
onMessageOneMore(S, s, frame) ==
    LET r0 == S.rate[s]
        r1 == IF S.now - r0.lastReset > RateWindow
              THEN [messageCount |-> 0, lastReset |-> S.now]
              ELSE r0
        r2 == [r1 EXCEPT !.messageCount = @ + 1]
        S1 == [S EXCEPT !.rate[s] = r2]
    IN IF r2.messageCount > MaxMessagesPerMinute
       THEN Refuse(S1, s, "rate_limit", Val(r2.lastReset + RateWindow, -1))
       ELSE IF frame.method = "<invalid json>"
       THEN Refuse(S1, s, "invalid_json", NullVal)
       ELSE IF Len(S1.queue) <= MaxQueueSize
       THEN processQueue([S1 EXCEPT !.queue = Append(@, Entry(s, frame, S.now, r2.lastReset))])
       ELSE Refuse(S1, s, "queue_full", NullVal)

\* a variant of the message handler that reports the excess frame and still queues it
onMessageNoReturn(S, s, frame) ==
    LET r0 == S.rate[s]
        r1 == IF S.now - r0.lastReset > RateWindow
              THEN [messageCount |-> 0, lastReset |-> S.now]
              ELSE r0
        r2 == [r1 EXCEPT !.messageCount = @ + 1]
        S1 == [S EXCEPT !.rate[s] = r2]
        S2 == IF r2.messageCount > MaxMessagesPerMinute
              THEN Refuse(S1, s, "rate_limit", Val(r2.lastReset + RateWindow, -1))
              ELSE S1
    IN IF frame.method = "<invalid json>"
       THEN Refuse(S2, s, "invalid_json", NullVal)
       ELSE IF Len(S2.queue) < MaxQueueSize
       THEN processQueue([S2 EXCEPT !.queue = Append(@, Entry(s, frame, S.now, r2.lastReset))])
       ELSE Refuse(S2, s, "queue_full", NullVal)

\* ws.on("message"): the rate limiter, JSON.parse and the queue admission
onMessage(S, s, frame) ==
    LET r0 == S.rate[s]
        r1 == IF S.now - r0.lastReset > RateWindow
              THEN [messageCount |-> 0, lastReset |-> S.now]
              ELSE r0
        r2 == [r1 EXCEPT !.messageCount = @ + 1]
        S1 == [S EXCEPT !.rate[s] = r2]
    IN IF r2.messageCount > MaxMessagesPerMinute
       THEN Refuse(S1, s, "rate_limit", Val(r2.lastReset + RateWindow, -1))
       ELSE IF frame.method = "<invalid json>"
       THEN Refuse(S1, s, "invalid_json", NullVal)
       ELSE IF Len(S1.queue) < MaxQueueSize
       THEN processQueue([S1 EXCEPT !.queue = Append(@, Entry(s, frame, S.now, r2.lastReset))])
       ELSE Refuse(S1, s, "queue_full", NullVal)

\* a variant of the connection handler that counts the sessions already there
\* and leaves the arriving one out
onConnectionCountsOthers(S, s) ==
    LET clients == {x \in Sessions : S.rs[x] \in {"OPEN", "CLOSING"}} \ {s}
    IN IF Cardinality(clients) > ConnectionCap
       THEN Note([S EXCEPT !.rs[s] = "CLOSED"], "reject", "connection", Val(s, -1), NullVal)
       ELSE SendFrame([S EXCEPT !.rs[s] = "OPEN",
                                !.rate[s] = [messageCount |-> 0, lastReset |-> S.now]],
                      s, "connection", "connected", NullVal)

\* wss.on("connection"): the session is already in wss.clients when the handler runs.
\* A rejected socket gets ws.close() and no handler; it is taken out of the count
\* at once, which lets in no fewer connections than the source does
onConnection(S, s) ==
    LET clients == {x \in Sessions : S.rs[x] \in {"OPEN", "CLOSING"}} \cup {s}
    IN IF Cardinality(clients) > ConnectionCap
       THEN Note([S EXCEPT !.rs[s] = "CLOSED"], "reject", "connection", Val(s, -1), NullVal)
       ELSE SendFrame([S EXCEPT !.rs[s] = "OPEN",
                                !.rate[s] = [messageCount |-> 0, lastReset |-> S.now]],
                      s, "connection", "connected", NullVal)

RemoveSession(q, s) == SelectSeq(q, LAMBDA e : e.ws # s)

\* the close handler notes how many queue entries and memberships the session had
NoteClose(S, s) ==
    Note(S, "close", "session",
         Val(Len(S.queue) - Len(RemoveSession(S.queue, s)),
             Cardinality({f \in Feeds : s \in S.subs[f]})), NullVal)

\* a variant of the close handler that leaves the session's queued requests
onCloseKeepsQueue(S, s) ==
    Forget([NoteClose(S, s) EXCEPT !.rs[s] = "CLOSED",
                                   !.subs = [f \in Feeds |-> S.subs[f] \ {s}]], s, Feeds)

\* ws.on("close")
onClose(S, s) ==
    Forget([NoteClose(S, s) EXCEPT !.rs[s] = "CLOSED",
                                   !.queue = RemoveSession(@, s),
                                   !.subs = [f \in Feeds |-> S.subs[f] \ {s}]], s, Feeds)

----------------------------------------------------------------------------
(* Poll driver: the setInterval callback of setupPeriodicUpdates *)

\* the legacy broadcast, which ends the iteration
pollLegacy(S, p) ==
    LET targets == {s \in Sessions :
                        S.rs[s] = "OPEN" /\ s \notin S.subs["global_properties"]}
        S1 == SendAll(S, targets, "broadcast", "dynamic_global_properties_update",
                      S.cache.globalProperties)
    IN [S1 EXCEPT !.tasks[p].gotLegacy = targets, !.tasks[p].pc = "idle"]

\* processNewBlockForSubscriptions: its last statement, then back in the callback
pollBlockEnd(S, p) == pollLegacy([S EXCEPT !.lpb = S.tasks[p].blk], p)

\* ... after getOpsInBlock returned or threw
pollAfterOps(S, p, r) ==
    IF r.ok
    THEN pollBlockEnd(PollBroadcast(S, p, "operations", Val(S.tasks[p].blk, r.val.src)), p)
    ELSE pollBlockEnd([S EXCEPT !.tasks[p].failed = @ \cup {"operations"}], p)

\* ... if (this.subscribers.operations.size > 0)
pollOps(S, p) ==
    IF S.subs["operations"] # {}
    THEN LET R == ReadStart(S, p, "getOpsInBlock", S.tasks[p].blk, FALSE)
         IN IF R.done THEN pollAfterOps(R.S, p, R) ELSE R.S
    ELSE pollBlockEnd(S, p)

\* a variant of pollAfterBlock that fetches the block and does not broadcast it
pollAfterBlockSilent(S, p, r) ==
    IF r.ok
    THEN pollOps(S, p)
    ELSE pollBlockEnd([S EXCEPT !.tasks[p].failed = @ \cup {"blocks", "operations"}], p)

\* ... after getBlock returned or threw
pollAfterBlock(S, p, r) ==
    IF r.ok
    THEN pollOps(IF S.subs["blocks"] # {}
                 THEN PollBroadcast(S, p, "blocks", Val(S.tasks[p].blk, r.val.src))
                 ELSE S, p)
    ELSE pollBlockEnd([S EXCEPT !.tasks[p].failed = @ \cup {"blocks", "operations"}], p)

\* ... if (blocks.size > 0 || operations.size > 0)
pollBlock(S, p) ==
    IF S.subs["blocks"] # {} \/ S.subs["operations"] # {}
    THEN LET R == ReadStart(S, p, "getBlock", S.tasks[p].blk, FALSE)
         IN IF R.done THEN pollAfterBlock(R.S, p, R) ELSE R.S
    ELSE pollBlockEnd(S, p)

\* ... after getBlockHeader returned or threw
pollAfterHeader(S, p, r) ==
    IF r.ok
    THEN pollBlock(PollBroadcast(S, p, "block_headers", Val(S.tasks[p].blk, r.val.src)), p)
    ELSE pollBlock([S EXCEPT !.tasks[p].failed = @ \cup {"block_headers"}], p)

\* processNewBlockForSubscriptions(blockNumber), from its start
processNewBlockForSubscriptions(S, p) ==
    IF S.subs["block_headers"] # {}
    THEN LET R == ReadStart(S, p, "getBlockHeader", S.tasks[p].blk, FALSE)
         IN IF R.done THEN pollAfterHeader(R.S, p, R) ELSE R.S
    ELSE pollBlock(S, p)

\* a variant of the callback that fans out whether or not the head height changed
pollAfterRefreshAlways(S, p, r) ==
    LET currentBlock == S.cache.globalProperties.h
        derived == {"block_headers", "blocks", "operations"}
        S1 == [S EXCEPT !.tasks[p].blk = currentBlock,
                        !.tasks[p].detected = TRUE,
                        !.tasks[p].owed = [f \in Feeds |->
                            IF f \in derived \cup {"global_properties"}
                            THEN {s \in S.subs[f] : S.rs[s] = "OPEN"} ELSE {}]]
        S2 == IF S1.subs["global_properties"] # {}
              THEN PollBroadcast(S1, p, "global_properties", S1.cache.globalProperties)
              ELSE S1
    IN IF ~r.ok
       THEN [failoverNext(S, S.tasks[p].node) EXCEPT !.tasks[p].pc = "idle"]
       ELSE IF S.cache.globalProperties # NullVal
       THEN processNewBlockForSubscriptions(S2, p)
       ELSE [S EXCEPT !.tasks[p].pc = "idle"]

\* a variant of the callback whose catch logs the failure and keeps the endpoint
pollAfterRefreshNoRotate(S, p, r) ==
    LET currentBlock == S.cache.globalProperties.h
        derived == {"block_headers", "blocks", "operations"}
        S1 == [S EXCEPT !.tasks[p].blk = currentBlock,
                        !.tasks[p].detected = TRUE,
                        !.tasks[p].owed = [f \in Feeds |->
                            IF f \in derived \cup {"global_properties"}
                            THEN {s \in S.subs[f] : S.rs[s] = "OPEN"} ELSE {}]]
        S2 == IF S1.subs["global_properties"] # {}
              THEN PollBroadcast(S1, p, "global_properties", S1.cache.globalProperties)
              ELSE S1
    IN IF ~r.ok
       THEN [S EXCEPT !.tasks[p].pc = "idle"]
       ELSE IF S.cache.globalProperties # NullVal /\ currentBlock # S.tasks[p].prev
       THEN processNewBlockForSubscriptions(S2, p)
       ELSE [S EXCEPT !.tasks[p].pc = "idle"]

\* the callback after `await this.getDynamicGlobalProperties()` returned or threw
pollAfterRefresh(S, p, r) ==
    LET currentBlock == S.cache.globalProperties.h
        derived == {"block_headers", "blocks", "operations"}
        S1 == [S EXCEPT !.tasks[p].blk = currentBlock,
                        !.tasks[p].detected = TRUE,
                        !.tasks[p].owed = [f \in Feeds |->
                            IF f \in derived \cup {"global_properties"}
                            THEN {s \in S.subs[f] : S.rs[s] = "OPEN"} ELSE {}]]
        S2 == IF S1.subs["global_properties"] # {}
              THEN PollBroadcast(S1, p, "global_properties", S1.cache.globalProperties)
              ELSE S1
    IN IF ~r.ok
       THEN [failoverNext(S, S.tasks[p].node) EXCEPT !.tasks[p].pc = "idle"]
       ELSE IF S.cache.globalProperties # NullVal /\ currentBlock # S.tasks[p].prev
       THEN processNewBlockForSubscriptions(S2, p)
       ELSE [S EXCEPT !.tasks[p].pc = "idle"]

\* a tick of the 3 s interval: the callback up to its first await
pollStart(S, p) ==
    LET S1 == [S EXCEPT !.tasks[p] = [IdleTask EXCEPT !.prev = S.cache.globalProperties.h]]
        R == getDynamicGlobalPropertiesStart(S1, p)
    IN IF R.done THEN pollAfterRefresh(R.S, p, R) ELSE R.S

\* the poll iteration p resumes after the read it awaited
pollResume(S, p, r) ==
    LET op == S.tasks[p].op
    IN CASE op = "getDynamicGlobalProperties" -> pollAfterRefresh(S, p, r)
         [] op = "getBlockHeader" -> pollAfterHeader(S, p, r)
         [] op = "getBlock" -> pollAfterBlock(S, p, r)
         [] OTHER -> pollAfterOps(S, p, r)

\* the task t resumes after the upstream call it awaited settled with r
Resume(S, t, r) ==
    LET R == callSteemAPIEnd(S, t, r)
    IN IF ~R.done THEN R.S
       ELSE IF t = Drainer THEN handleMessageEnd(R.S, R)
       ELSE pollResume(R.S, t, R)

----------------------------------------------------------------------------
(* Health probe: the setInterval callback of startNodeHealthMonitoring *)

\* a variant of the probe in which an answer that took long counts as a failure
probeOkSlowFails(S) == [failoverHealthy(S, S.probe.node) EXCEPT !.probe.pc = "idle"]

\* the probe's call returned: the endpoint current now is marked healthy
probeOk(S) == [S EXCEPT !.health[S.cur].healthy = TRUE, !.probe.pc = "idle"]

\* the probe's call threw
probeFailed(S) == [failoverHealthy(S, S.probe.node) EXCEPT !.probe.pc = "idle"]

----------------------------------------------------------------------------
(* Actions: one per callback entry or resumption, and the environment's *)

\* the clock advances
Tick ==
    /\ budget.ticks > 0
    /\ Apply([State EXCEPT !.now = @ + 1, !.budget.ticks = @ - 1])

\* endpoint n sees a new head block
NodeAdvance(n) ==
    /\ nodeHead[n] < MaxHeight
    /\ Apply([State EXCEPT !.nodeHead[n] = @ + 1])

\* a client connects
Connect(s) ==
    /\ readyState[s] = "NONE"
    /\ Apply(onConnection(State, s))

\* a frame of an open session arrives
Receive(s, frame) ==
    /\ readyState[s] = "OPEN"
    /\ budget.frames > 0
    /\ Apply(onMessage([State EXCEPT !.budget.frames = @ - 1], s, frame))

\* the peer starts closing: no more frames from it, the close event still to come
ClientCloses(s) ==
    /\ readyState[s] = "OPEN"
    /\ Apply([State EXCEPT !.rs[s] = "CLOSING"])

\* the close event of a session
CloseEvent(s) ==
    /\ readyState[s] = "CLOSING"
    /\ Apply(onClose(State, s))

\* a variant of the drainer that handles one entry per run and then stops
DelayEndsOnce ==
    /\ tasks[Drainer].pc = "delay"
    /\ Apply([State EXCEPT !.busy = FALSE, !.tasks[Drainer] = IdleTask])

\* processQueue's 10 ms timer fires: the loop tests its condition again
DelayEnds ==
    /\ tasks[Drainer].pc = "delay"
    /\ Apply(IF requestQueue # <<>>
             THEN DrainNext(State)
             ELSE [State EXCEPT !.busy = FALSE, !.tasks[Drainer] = IdleTask])

\* the upstream call task t awaits returns (w: the witness list the endpoint holds)
CallReturns(t, w) ==
    /\ tasks[t].pc = "call"
    /\ LET T == tasks[t]
           r == [ok |-> TRUE, val |-> UpstreamResult(State, T.op, T.h, T.node, w),
                 err |-> "none"]
       IN Apply(Resume(State, t, r))

\* the upstream call task t awaits throws
CallFails(t, e) ==
    /\ tasks[t].pc = "call"
    /\ budget.faults > 0
    /\ Apply(Resume([State EXCEPT !.budget.faults = @ - 1], t,
                    [ok |-> FALSE, val |-> NullVal, err |-> e]))

\* callSteemAPI's back-off timer fires: the next attempt goes to the endpoint current now
BackoffEnds(t) ==
    /\ tasks[t].pc = "backoff"
    /\ Apply([State EXCEPT !.tasks[t].pc = "call", !.tasks[t].attempt = @ + 1,
                           !.tasks[t].node = currentNodeIndex])

\* the poll interval fires; iterations take the lowest free slot
PollStart(p) ==
    /\ tasks[p].pc = "idle"
    /\ \A q \in PollIds : q < p => tasks[q].pc # "idle"
    /\ budget.polls > 0
    /\ Apply(pollStart([State EXCEPT !.budget.polls = @ - 1], p))

\* the health interval fires: the probe calls the current endpoint
ProbeStart ==
    /\ probe.pc = "idle"
    /\ budget.probes > 0
    /\ Apply([State EXCEPT !.budget.probes = @ - 1,
                           !.probe = [pc |-> "call", node |-> currentNodeIndex]])

ProbeReturns ==
    /\ probe.pc = "call"
    /\ Apply(probeOk(State))

ProbeFails ==
    /\ probe.pc = "call"
    /\ budget.faults > 0
    /\ Apply(probeFailed([State EXCEPT !.budget.faults = @ - 1]))

----------------------------------------------------------------------------
(* Specifications *)

\* a frame: JSON text that parses to a request, or "<invalid json>" that does not
\* parse, or "<null>", the JSON text null; an empty method is a missing one
FrameId(id, m, h, virt) == [method |-> m, h |-> h, virt |-> virt, id |-> id]

Frame(m, h, virt) == FrameId("7", m, h, virt)

\* the state after the constructor, with the environment's budget b
InitWith(b) ==
    /\ now = StartTime
    /\ nodeHead = [n \in Nodes |-> 1]
    /\ budget = b
    /\ currentNodeIndex = 0
    /\ nodeHealth = [n \in Nodes |->
            [healthy |-> TRUE, lastError |-> 0, errorCount |-> 0, avgResponseTime |-> 0]]
    /\ cache = EmptyCache
    /\ subscribers = [f \in Feeds |-> {}]
    /\ readyState = [s \in Sessions |-> "NONE"]
    /\ rate = [s \in Sessions |-> [messageCount |-> 0, lastReset |-> 0]]
    /\ requestQueue = <<>>
    /\ isProcessingQueue = FALSE
    /\ tasks = [t \in TaskIds |-> IdleTask]
    /\ probe = [pc |-> "idle", node |-> 0]
    /\ lastProcessedBlock = 0
    /\ sent = <<>>
    /\ events = <<>>
    /\ lastTwo = [s \in Sessions |-> [f \in Feeds |-> <<0, 0>>]]
    /\ admitted = [s \in Sessions |-> <<>>]

(* Spec: the pool under failures.  One session reads head state and a     *)
(* block, one poll iteration and one health probe run beside it, upstream  *)
(* calls fail, the clock passes the head TTL.                              *)

PoolFrames == 2
PoolFaults == 3
PoolPolls == 1
PoolProbes == 1
PoolTicks == 1

PoolFrameSet ==
    {Frame("get_dynamic_global_properties", 0, FALSE), Frame("get_block", 1, FALSE)}

Init ==
    InitWith([frames |-> PoolFrames, faults |-> PoolFaults, polls |-> PoolPolls,
              probes |-> PoolProbes, ticks |-> PoolTicks])

Next ==
    \/ Tick
    \/ Connect(1)
    \/ \E f \in PoolFrameSet : Receive(1, f)
    \/ DelayEnds
    \/ \E t \in {Drainer, 1}, w \in {1} : CallReturns(t, w)
    \/ \E t \in {Drainer, 1}, e \in ErrKinds : CallFails(t, e)
    \/ \E t \in {Drainer, 1} : BackoffEnds(t)
    \/ PollStart(1)
    \/ ProbeStart
    \/ ProbeReturns
    \/ ProbeFails

Spec == Init /\ [][Next]_vars

(* SpecFan: the fan-out.  Sessions subscribe to and unsubscribe from the    *)
(* head-state feed and the derived feeds while poll iterations detect head *)
(* changes, fetch the derived artifacts and broadcast; upstream calls fail *)
(* and heads differ between endpoints.                                     *)

FanFrames == 3
FanFaults == 3
FanPolls == 1

FanFrameSet ==
    {Frame("subscribe_global_properties", 0, FALSE),
     Frame("unsubscribe_global_properties", 0, FALSE),
     Frame("subscribe_blocks", 0, FALSE),
     Frame("subscribe_block_headers", 0, FALSE),
     Frame("subscribe_operations", 0, FALSE)}

InitFan ==
    InitWith([frames |-> FanFrames, faults |-> FanFaults, polls |-> FanPolls,
              probes |-> 0, ticks |-> 0])

NextFan ==
    \/ \E s \in TwoSessions : Connect(s)
    \/ \E s \in TwoSessions, f \in FanFrameSet : Receive(s, f)
    \/ DelayEnds
    \/ \E w \in {1} : CallReturns(1, w)
    \/ \E e \in ErrKinds : CallFails(1, e)
    \/ BackoffEnds(1)
    \/ PollStart(1)

SpecFan == InitFan /\ [][NextFan]_vars

(* SpecOrder: the order of updates.  A session subscribes to the head-state *)
(* feed and to the header feed; poll iterations, which may overlap, run     *)
(* while the endpoints' heads advance independently and upstream calls    *)
(* fail, so that the pool moves between endpoints of different heights.    *)

OrderFrames == 2
OrderFaults == 1
OrderPolls == 2

OrderFrameSet ==
    {Frame("subscribe_global_properties", 0, FALSE),
     Frame("subscribe_block_headers", 0, FALSE)}

InitOrder ==
    InitWith([frames |-> OrderFrames, faults |-> OrderFaults, polls |-> OrderPolls,
              probes |-> 0, ticks |-> 0])

NextOrder ==
    \/ \E n \in Nodes : NodeAdvance(n)
    \/ Connect(1)
    \/ \E f \in OrderFrameSet : Receive(1, f)
    \/ DelayEnds
    \/ \E p \in PollIds, w \in {1} : CallReturns(p, w)
    \/ \E p \in PollIds, e \in ErrKinds : CallFails(p, e)
    \/ \E p \in PollIds : BackoffEnds(p)
    \/ \E p \in PollIds : PollStart(p)

SpecOrder == InitOrder /\ [][NextOrder]_vars

(* SpecSession: the life of sessions.  Two sessions connect, subscribe to   *)
(* the head-state and witness feeds, read the witness list and close,      *)
(* while a poll iteration fills the head-state slot.                       *)

SessionFrames == 3
SessionPolls == 1

SessionFrameSet ==
    {Frame("subscribe_global_properties", 0, FALSE),
     Frame("subscribe_witnesses", 0, FALSE),
     Frame("get_active_witnesses", 0, FALSE)}

InitSession ==
    InitWith([frames |-> SessionFrames, faults |-> 0, polls |-> SessionPolls,
              probes |-> 0, ticks |-> 0])

NextSession ==
    \/ \E s \in TwoSessions : Connect(s)
    \/ \E s \in TwoSessions, f \in SessionFrameSet : Receive(s, f)
    \/ \E s \in TwoSessions : ClientCloses(s)
    \/ \E s \in TwoSessions : CloseEvent(s)
    \/ DelayEnds
    \/ \E t \in {Drainer, 1}, w \in WitnessLists : CallReturns(t, w)
    \/ PollStart(1)

SpecSession == InitSession /\ [][NextSession]_vars

(* SpecRate: the rate limiter.  One session sends frames, well formed or   *)
(* not, while the clock runs past the end of its counter window.           *)

RateFrames == 5
RateTicks == 4

RateFrameSet ==
    {Frame("subscribe_blocks", 0, FALSE), Frame("<invalid json>", 0, FALSE)}

InitRate ==
    InitWith([frames |-> RateFrames, faults |-> 0, polls |-> 0,
              probes |-> 0, ticks |-> RateTicks])

NextRate ==
    \/ Tick
    \/ Connect(1)
    \/ \E f \in RateFrameSet : Receive(1, f)
    \/ DelayEnds

SpecRate == InitRate /\ [][NextRate]_vars

(* SpecCache: the bounded maps.  A session reads the operations of more   *)
(* blocks than a map holds, an upstream call fails (a failover clears the  *)
(* caches) and the clock passes the block TTL (a lookup drops the entry).  *)

CacheFrames == 3
CacheFaults == 1
CacheTicks == 3

CacheFrameSet ==
    {Frame("get_ops_in_block", 1, FALSE), Frame("get_ops_in_block", 1, TRUE),
     Frame("get_ops_in_block", 2, FALSE)}

InitCache ==
    InitWith([frames |-> CacheFrames, faults |-> CacheFaults, polls |-> 0,
              probes |-> 0, ticks |-> CacheTicks])

NextCache ==
    \/ Tick
    \/ Connect(1)
    \/ \E f \in CacheFrameSet : Receive(1, f)
    \/ DelayEnds
    \/ \E w \in {1} : CallReturns(Drainer, w)
    \/ \E e \in ErrKinds : CallFails(Drainer, e)
    \/ BackoffEnds(Drainer)

SpecCache == InitCache /\ [][NextCache]_vars

(* SpecQueue: the work queue under a burst.  Two sessions send frames      *)
(* faster than the drainer, which waits for its timer between entries,     *)
(* takes them.                                                             *)

QueueFrames == 4

QueueFrameSet ==
    {Frame("subscribe_blocks", 0, FALSE), Frame("unsubscribe_blocks", 0, FALSE)}

InitQueue ==
    InitWith([frames |-> QueueFrames, faults |-> 0, polls |-> 0,
              probes |-> 0, ticks |-> 0])

NextQueue ==
    \/ \E s \in TwoSessions : Connect(s)
    \/ \E s \in TwoSessions, f \in QueueFrameSet : Receive(s, f)
    \/ DelayEnds

SpecQueue == InitQueue /\ [][NextQueue]_vars

(* SpecCap: the connection cap.  More clients than the cap allows connect, *)
(* send a frame and close, in any order.                                   *)

CapFrames == 2

CapFrameSet == {Frame("subscribe_blocks", 0, FALSE)}

InitCap ==
    InitWith([frames |-> CapFrames, faults |-> 0, polls |-> 0,
              probes |-> 0, ticks |-> 0])

NextCap ==
    \/ \E s \in Sessions : Connect(s)
    \/ \E s \in Sessions, f \in CapFrameSet : Receive(s, f)
    \/ \E s \in Sessions : ClientCloses(s)
    \/ \E s \in Sessions : CloseEvent(s)
    \/ DelayEnds

SpecCap == InitCap /\ [][NextCap]_vars

----------------------------------------------------------------------------
(* Error scenario: frames that end in each kind of error, on two sessions *)

ErrFrames == 3
ErrFaults == 3

ErrFrameSet ==
    {Frame("<invalid json>", 0, FALSE), FrameId("absent", "<null>", 0, FALSE),
     Frame("", 0, FALSE), FrameId("0", "", 0, FALSE),
     FrameId("0", "get_accounts_by_key", 0, FALSE), Frame("get_network_info", 0, FALSE),
     Frame("get_block", 0, FALSE), FrameId("0", "get_block", 1, FALSE),
     FrameId("absent", "get_dynamic_global_properties", 0, FALSE)}

InitErr ==
    InitWith([frames |-> ErrFrames, faults |-> ErrFaults, polls |-> 0,
              probes |-> 0, ticks |-> 0])

NextErr ==
    \/ \E s \in TwoSessions : Connect(s)
    \/ \E s \in TwoSessions, f \in ErrFrameSet : Receive(s, f)
    \/ DelayEnds
    \/ CallReturns(Drainer, 1)
    \/ \E e \in ErrKinds : CallFails(Drainer, e)
    \/ BackoffEnds(Drainer)

SpecErr == InitErr /\ [][NextErr]_vars

----------------------------------------------------------------------------
(* Block scenario: repeated block-level reads of heights at and beyond the head *)

BlockFrames == 3
BlockFaults == 1

BlockFrameSet ==
    {Frame("get_block_header", 1, FALSE), Frame("get_block_header", 2, FALSE),
     Frame("get_block", 2, FALSE), Frame("get_ops_in_block", 1, FALSE)}

InitBlock ==
    InitWith([frames |-> BlockFrames, faults |-> BlockFaults, polls |-> 0,
              probes |-> 0, ticks |-> 0])

NextBlock ==
    \/ \E s \in TwoSessions : Connect(s)
    \/ \E s \in TwoSessions, f \in BlockFrameSet : Receive(s, f)
    \/ DelayEnds
    \/ CallReturns(Drainer, 1)
    \/ \E e \in ErrKinds : CallFails(Drainer, e)
    \/ BackoffEnds(Drainer)

SpecBlock == InitBlock /\ [][NextBlock]_vars

----------------------------------------------------------------------------
(* Routing scenario: reads in bare and in namespaced form *)

RouteFrames == 3
RouteFaults == 1

RouteFrameSet ==
    {Frame("get_dynamic_global_properties", 0, FALSE),
     Frame("condenser_api.get_dynamic_global_properties", 0, FALSE),
     Frame("get_block", 1, FALSE), Frame("condenser_api.get_block", 1, FALSE),
     Frame("condenser_api.get_block", 0, FALSE),
     Frame("market_history_api.get_ticker", 0, FALSE),
     Frame("condenser_api.get_ticker", 0, FALSE)}

InitRoute ==
    InitWith([frames |-> RouteFrames, faults |-> RouteFaults, polls |-> 0,
              probes |-> 0, ticks |-> 0])

NextRoute ==
    \/ \E s \in TwoSessions : Connect(s)
    \/ \E s \in TwoSessions, f \in RouteFrameSet : Receive(s, f)
    \/ DelayEnds
    \/ CallReturns(Drainer, 1)
    \/ \E e \in ErrKinds : CallFails(Drainer, e)
    \/ BackoffEnds(Drainer)

SpecRoute == InitRoute /\ [][NextRoute]_vars

----------------------------------------------------------------------------
(* Progress scenario: two sessions send reads and malformed requests and    *)
(* may close; upstream calls settle and timers fire (weak fairness: the     *)
(* upstream client has a timeout, and the event loop runs every due timer). *)

LiveFrames == 2
LiveFaults == 3

LiveFrameSet ==
    {Frame("get_block", 1, FALSE), Frame("get_dynamic_global_properties", 0, FALSE),
     FrameId("absent", "<null>", 0, FALSE), Frame("", 0, FALSE)}

InitLive ==
    InitWith([frames |-> LiveFrames, faults |-> LiveFaults, polls |-> 0,
              probes |-> 0, ticks |-> 0])

\* the upstream call the drainer awaits settles, one way or the other
Settles == CallReturns(Drainer, 1) \/ \E e \in ErrKinds : CallFails(Drainer, e)

NextLive ==
    \/ \E s \in TwoSessions : Connect(s)
    \/ \E s \in TwoSessions, f \in LiveFrameSet : Receive(s, f)
    \/ \E s \in TwoSessions : ClientCloses(s)
    \/ \E s \in TwoSessions : CloseEvent(s)
    \/ DelayEnds
    \/ Settles
    \/ BackoffEnds(Drainer)

SpecLive ==
    /\ InitLive /\ [][NextLive]_vars
    /\ WF_vars(DelayEnds) /\ WF_vars(Settles) /\ WF_vars(BackoffEnds(Drainer))

(* SpecPick: switchToHealthyNode applied once to a pool of three endpoints  *)
(* whose health records, current endpoint and head slot are drawn from the  *)
(* values the bridge can have produced by then.                             *)

PickNodes == 3
PickNow == 5
PickFaults == 1

\* errors leave a last-error time and a count behind; only an error unsets healthy
PickHealth ==
    {r \in [healthy : BOOLEAN, lastError : {0, 1, 4}, errorCount : 0 .. 2,
            avgResponseTime : 0 .. 1] :
        /\ (r.lastError = 0) = (r.errorCount = 0)
        /\ ~r.healthy => r.lastError > 0}

InitPick ==
    /\ now = PickNow
    /\ nodeHead = [n \in 0 .. (PickNodes - 1) |-> 1]
    /\ budget = [frames |-> 0, faults |-> PickFaults, polls |-> 0, probes |-> 0, ticks |-> 0]
    /\ currentNodeIndex \in 0 .. (PickNodes - 1)
    /\ nodeHealth \in [0 .. (PickNodes - 1) -> PickHealth]
    /\ cache \in {EmptyCache,
                  [EmptyCache EXCEPT !.globalProperties = Val(1, currentNodeIndex),
                                     !.lastGlobalUpdate = PickNow,
                                     !.globalStoredAt = PickNow]}
    /\ subscribers = [f \in Feeds |-> {}]
    /\ readyState = [s \in Sessions |-> "NONE"]
    /\ rate = [s \in Sessions |-> [messageCount |-> 0, lastReset |-> 0]]
    /\ requestQueue = <<>>
    /\ isProcessingQueue = FALSE
    /\ tasks = [t \in TaskIds |-> IdleTask]
    /\ probe = [pc |-> "idle", node |-> 0]
    /\ lastProcessedBlock = 0
    /\ sent = <<>>
    /\ events = <<>>
    /\ lastTwo = [s \in Sessions |-> [f \in Feeds |-> <<0, 0>>]]
    /\ admitted = [s \in Sessions |-> <<>>]

\* a call of switchToHealthyNode()
SwitchToHealthyNode ==
    /\ budget.faults > 0
    /\ Apply([switchToHealthyNode(State) EXCEPT !.budget.faults = @ - 1])

SpecPick == InitPick /\ [][SwitchToHealthyNode]_vars

(* SpecFresh: the witnesses feed over failovers.  A session subscribes to    *)
(* the witnesses feed, another session reads the witness list twice, the    *)
(* endpoints hold one of two lists, the clock passes the list's TTL,        *)
(* upstream calls fail and the health probe runs, so that the caches are    *)
(* cleared between refreshes.                                               *)

FreshFrames == 3
FreshFaults == 3
FreshProbes == 1
FreshTicks == 2

SpecFresh ==
    /\ InitWith([frames |-> FreshFrames, faults |-> FreshFaults, polls |-> 0,
                 probes |-> FreshProbes, ticks |-> FreshTicks])
    /\ [][\/ Tick
          \/ \E s \in TwoSessions : Connect(s)
          \/ Receive(1, Frame("subscribe_witnesses", 0, FALSE))
          \/ Receive(2, Frame("get_active_witnesses", 0, FALSE))
          \/ DelayEnds
          \/ \E w \in WitnessLists : CallReturns(Drainer, w)
          \/ \E e \in ErrKinds : CallFails(Drainer, e)
          \/ BackoffEnds(Drainer)
          \/ ProbeStart
          \/ ProbeReturns
          \/ ProbeFails]_vars

(* SpecStore: setCacheItem applied to the operations map.  The map starts   *)
(* as any map the bridge can hold, up to the size bound, of entries stored  *)
(* before now; each step stores a value under one of three keys.            *)

StoreKeys == {Key(1, FALSE), Key(1, TRUE), Key(2, FALSE)}

\* the maps of at most MaxCacheSize entries with distinct keys, stored before now
StoreMaps ==
    LET entries == {[key |-> k, value |-> Val(k.h, 0), timestamp |-> t] :
                        k \in StoreKeys, t \in 0 .. (StartTime - 1)}
    IN UNION {{m \in [1 .. n -> entries] :
                    \A i, j \in 1 .. n : i # j => m[i].key # m[j].key} : n \in 0 .. MaxCacheSize}

\* a call of setCacheItem(this.cache.operations, k, value from endpoint n)
SetCacheItem(k, n) ==
    /\ k \in StoreKeys
    /\ LET map == setCacheItem(cache.operations, k, Val(k.h, n), now)
       IN Apply(Note([State EXCEPT !.cache.operations = map], "store", "operations",
                     Val(Len(cache.operations), n), Val(Len(map), n)))

InitStore ==
    /\ now = StartTime
    /\ nodeHead = [n \in Nodes |-> 1]
    /\ budget = [frames |-> 0, faults |-> 0, polls |-> 0, probes |-> 0, ticks |-> 0]
    /\ currentNodeIndex = 0
    /\ nodeHealth = [n \in Nodes |->
            [healthy |-> TRUE, lastError |-> 0, errorCount |-> 0, avgResponseTime |-> 0]]
    /\ cache \in {[EmptyCache EXCEPT !.operations = m] : m \in StoreMaps}
    /\ subscribers = [f \in Feeds |-> {}]
    /\ readyState = [s \in Sessions |-> "NONE"]
    /\ rate = [s \in Sessions |-> [messageCount |-> 0, lastReset |-> 0]]
    /\ requestQueue = <<>>
    /\ isProcessingQueue = FALSE
    /\ tasks = [t \in TaskIds |-> IdleTask]
    /\ probe = [pc |-> "idle", node |-> 0]
    /\ lastProcessedBlock = 0
    /\ sent = <<>>
    /\ events = <<>>
    /\ lastTwo = [s \in Sessions |-> [f \in Feeds |-> <<0, 0>>]]
    /\ admitted = [s \in Sessions |-> <<>>]

SpecStore == InitStore /\ [][\E k \in StoreKeys, n \in Nodes : SetCacheItem(k, n)]_vars

(* SpecFeed: the head-state feed over time.  A session subscribes to the    *)
(* feed and reads the head state while the poll interval keeps firing and   *)
(* the poll's upstream calls fail.  Each of the two tasks, the drainer and  *)
(* the poll iteration, is weakly fair: at most one of its steps is          *)
(* enabled (its timer, its back-off timer, or the settling of its upstream  *)
(* call within dsteem's 10 s timeout), and that step is taken.              *)

FeedFrames == 2
FeedFaults == 3

\* the poll interval fires, as it does every 3 s for as long as the bridge runs
PollTick(p) ==
    /\ tasks[p].pc = "idle"
    /\ Apply(pollStart(State, p))

NextFeed ==
    \/ Connect(1)
    \/ \E f \in {Frame("subscribe_global_properties", 0, FALSE),
                  Frame("get_dynamic_global_properties", 0, FALSE)} : Receive(1, f)
    \/ DelayEnds
    \/ \E t \in {Drainer, 1} : CallReturns(t, 1)
    \/ \E e \in ErrKinds : CallFails(1, e)
    \/ BackoffEnds(1)
    \/ PollTick(1)

SpecFeed ==
    /\ InitWith([frames |-> FeedFrames, faults |-> FeedFaults, polls |-> 0,
                 probes |-> 0, ticks |-> 0])
    /\ [][NextFeed]_vars
    /\ WF_vars(DelayEnds \/ CallReturns(Drainer, 1))
    /\ WF_vars(PollTick(1) \/ BackoffEnds(1) \/ CallReturns(1, 1)
                    \/ \E e \in ErrKinds : CallFails(1, e))

----------------------------------------------------------------------------
(* Claims *)

Event(kinds) == {events[i] : i \in {j \in DOMAIN events : events[j].kind \in kinds}}

CachesEmpty(c) ==
    /\ c.globalProperties = NullVal
    /\ c.activeWitnesses = NullVal
    /\ c.blockHeaders = <<>>
    /\ c.blocks = <<>>
    /\ c.operations = <<>>

\* C1: a head-state or witness read whose upstream refresh failed, and that found
\* a value in its slot when it started, returns that value and throws no error.
C1_StaleOnError ==
    \A e \in Event({"stale", "throw"}) :
        e.prior # NullVal => (e.kind = "stale" /\ e.result = e.prior)

\* C5: a step that changes the current endpoint leaves every cache empty: the two
\* slots and the three maps.
C5_SwitchClearsAll ==
    [][currentNodeIndex' # currentNodeIndex => CachesEmpty(cache')]_vars

\* C6: with more than one endpoint configured and at least one eligible, a
\* failover after a failed call leaves the pool on an endpoint other than the
\* one whose call failed.
C6_NextCallElsewhere ==
    \A e \in Event({"failover"}) :
        (NumNodes > 1 /\ e.prior.h > 0) => e.result.src # e.prior.src

\* a poll iteration that detected a head change and has run to its end
FannedOut(p) == tasks[p].pc = "idle" /\ tasks[p].detected

OpenSessions == {s \in Sessions : readyState[s] = "OPEN"}

DerivedFeeds == {"block_headers", "blocks", "operations"}

\* C2: of one head change fanned out by a poll iteration, no session receives
\* both the global_properties subscription update and the legacy broadcast
C2_ExactlyOne ==
    \A p \in PollIds :
        FannedOut(p) => tasks[p].got["global_properties"] \cap tasks[p].gotLegacy = {}

C3_HeightsNonDecreasing ==
    \A s \in Sessions : \A f \in Feeds : lastTwo[s][f][1] <= lastTwo[s][f][2]

\* C8: a session whose close handler has run is a member of no subscription set
\* and has no entry in the work queue, in every later state
C8_ClosedSessionGone ==
    \A s \in Sessions :
        readyState[s] = "CLOSED" =>
            /\ \A f \in Feeds : s \notin subscribers[f]
            /\ \A i \in DOMAIN requestQueue : requestQueue[i].ws # s

\* the close handler ran for a session that had queued requests and memberships
C8_Witness ==
    \E e \in Event({"close"}) : e.prior.h > 0 /\ e.prior.src > 0

\* the frames a step sent: the response to a subscribe of feed f is at position i
SubscribeAckAt(i, f) ==
    /\ sent[i].type = "response"
    /\ SubscribeFeed(sent[i].tag) = f

\* C9: the response to a subscribe of the head-state or witness feed, sent while
\* the feed's slot holds a value, is followed at once, as the next frame to
\* that session, by a subscription update carrying the slot's value
C9_ImmediateUpdate ==
    \A i \in DOMAIN sent : \A f \in {"global_properties", "witnesses"} :
        (SubscribeAckAt(i, f) /\ SlotOf([cache |-> cache], f) # NullVal)
            => /\ i + 1 \in DOMAIN sent
               /\ sent[i + 1] = [to |-> sent[i].to, type |-> "subscription_update",
                                 tag |-> f, data |-> SlotOf([cache |-> cache], f)]

\* a subscribe of the witness feed was answered while the witness slot held a list
C9_Witness ==
    \E i \in DOMAIN sent :
        /\ SubscribeAckAt(i, "witnesses")
        /\ cache.activeWitnesses # NullVal
        /\ i + 1 \in DOMAIN sent
        /\ sent[i + 1].data = cache.activeWitnesses

RECURSIVE BagCount(_, _)
\* the number of entries of the bag b whose element is in the set E
BagCount(b, E) ==
    IF E = {} THEN 0
    ELSE LET e == CHOOSE x \in E : TRUE
         IN b[e] + BagCount(b, E \ {e})

\* the frames of session s, arrived at an instant of [a, a + RateWindow), that
\* were admitted and answered with a response
AnsweredInSpan(s, a) ==
    BagCount(admitted[s], {e \in DOMAIN admitted[s] : a <= e[2] /\ e[2] < a + RateWindow})

\* the frames of session s, counted in the counter window that started at win,
\* that were admitted and answered with a response
AnsweredInWindow(s, win) ==
    BagCount(admitted[s], {e \in DOMAIN admitted[s] : e[1] = win})

\* C4 as stated: in any span of RateWindow, wherever it starts, at most
\* MaxMessagesPerMinute frames of one session are admitted and answered
C4_SlidingWindow ==
    \A s \in Sessions : \A a \in 0 .. now : AnsweredInSpan(s, a) <= MaxMessagesPerMinute

\* C4 amended: in each counter window of a session, from one reset of its counter
\* to the next, at most MaxMessagesPerMinute frames are admitted and answered
C4_CounterWindow ==
    \A s \in Sessions : \A win \in 0 .. now :
        AnsweredInWindow(s, win) <= MaxMessagesPerMinute

\* a session used up its counter window and had a further frame rejected
C4_Witness ==
    \E s \in Sessions :
        /\ AnsweredInWindow(s, rate[s].lastReset) = MaxMessagesPerMinute
        /\ rate[s].messageCount > MaxMessagesPerMinute
        /\ \E i \in DOMAIN sent : sent[i].tag = "rate_limit"

\* C10: none of the three bounded maps holds more than MaxCacheSize entries
C10_CacheBounded ==
    /\ Len(cache.blockHeaders) <= MaxCacheSize
    /\ Len(cache.blocks) <= MaxCacheSize
    /\ Len(cache.operations) <= MaxCacheSize

\* a store into a full map, after which the map is full and no more
C10_Witness ==
    \E e \in Event({"store"}) : e.prior.h = MaxCacheSize /\ e.result.h = MaxCacheSize

\* a step in which a frame of session s arrived (its counter moved)
Arrived(s) == budget'.frames < budget.frames /\ rate'[s] # rate[s]

\* the frames the step wrote to session s
SentTo(q, s) == SelectSeq(q, LAMBDA f : f.to = s)

\* C11: the work queue never holds more than MaxQueueSize entries, and a frame
\* that passes the rate limiter and parses while the queue is full leaves the
\* queue as it is and is answered, in the same step, with a queue-full error
C11_QueueBounded ==
    /\ [](Len(requestQueue) <= MaxQueueSize)
    /\ [][\A s \in Sessions :
            (/\ Arrived(s)
             /\ Len(requestQueue) = MaxQueueSize
             /\ \A i \in DOMAIN sent' : sent'[i].tag \notin {"rate_limit", "invalid_json"})
                => /\ requestQueue' = requestQueue
                   /\ \E i \in DOMAIN sent' :
                        /\ sent'[i].to = s
                        /\ sent'[i].type = "error"
                        /\ sent'[i].tag = "queue_full"]_vars

\* a frame was refused by a full queue
C11_Witness ==
    /\ Len(requestQueue) = MaxQueueSize
    /\ \E i \in DOMAIN sent : sent[i].tag = "queue_full"

\* C12: never more than ConnectionCap sessions are open, and a connection that
\* arrives while ConnectionCap sessions are open is closed by the server at once,
\* without a hello frame and without ever having a frame of its own handled
C12_ConnectionCap ==
    /\ [](Cardinality(OpenSessions) <= ConnectionCap)
    /\ [][\A s \in Sessions :
            (/\ readyState[s] = "NONE"
             /\ readyState'[s] # "NONE"
             /\ Cardinality(OpenSessions) >= ConnectionCap)
                => /\ readyState'[s] = "CLOSED"
                   /\ SentTo(sent', s) = <<>>
                   /\ rate'[s] = rate[s]]_vars
    /\ [][\A s \in Sessions : readyState[s] = "CLOSED" => ~Arrived(s)]_vars

\* a connection was refused while ConnectionCap sessions were open
C12_Witness ==
    /\ Cardinality(OpenSessions) = ConnectionCap
    /\ \E e \in Event({"reject"}) : readyState[e.prior.h] = "CLOSED"

\* the step answered session s with the rate-limit error naming the instant t
RateLimited(s, t) ==
    SentTo(sent', s) = <<[to |-> s, type |-> "error", tag |-> "rate_limit", data |-> Val(t, -1)]>>

\* C13: a frame that arrives as one beyond MaxMessagesPerMinute since the last
\* reset of the session's counter, no later than RateWindow after that reset,
\* is answered with the rate-limit error naming lastReset + RateWindow and with
\* nothing else, reaches neither the queue nor the dispatcher and leaves the
\* session open; the frames up to MaxMessagesPerMinute are not refused for rate
C13_ExcessFrameRefused ==
    [][\A s \in Sessions :
        /\ (/\ Arrived(s)
            /\ now - rate[s].lastReset <= RateWindow
            /\ rate[s].messageCount >= MaxMessagesPerMinute)
                => /\ RateLimited(s, rate[s].lastReset + RateWindow)
                   /\ requestQueue' = requestQueue
                   /\ tasks' = tasks
                   /\ isProcessingQueue' = isProcessingQueue
                   /\ readyState'[s] = "OPEN"
        /\ (/\ Arrived(s)
            /\ \/ now - rate[s].lastReset > RateWindow
               \/ rate[s].messageCount < MaxMessagesPerMinute)
                => \A i \in DOMAIN sent' : sent'[i].tag # "rate_limit"]_vars

\* a frame beyond the cap was refused while the drainer had work
C13_Witness ==
    \E s \in Sessions :
        /\ rate[s].messageCount = MaxMessagesPerMinute + 1
        /\ \E i \in DOMAIN sent : sent[i].tag = "rate_limit"
        /\ isProcessingQueue

\* the error frames sent to session s in this step
ErrorFramesTo(s) == SelectSeq(SentTo(sent, s), LAMBDA f : f.type = "error")

\* C14: every frame that ends in an error outcome (invalid JSON, no method,
\* unsupported method, missing argument, rate limit, full queue, upstream
\* failure) while its session is open puts an error frame on that session, and
\* the session stays open
C14_ErrorFrameSessionOpen ==
    \A e \in Event({"error"}) :
        e.prior.src = 1 =>
            /\ readyState[e.prior.h] = "OPEN"
            /\ ErrorFramesTo(e.prior.h) # <<>>

\* C15: an error frame of the dispatcher carries the id and the method of the
\* request it answers, whatever id the client supplied
C15_ErrorEchoesRequest ==
    \A i \in DOMAIN sent :
        (/\ sent[i].type = "error"
         /\ "id" \in DOMAIN sent[i]
         /\ tasks[Drainer].id # "absent")
            => /\ sent[i].id = tasks[Drainer].id
               /\ sent[i].tag = tasks[Drainer].method


BlockMaps == {"blockHeaders", "blocks", "operations"}

\* C16: a read of a block artifact that is cached and within its TTL counts a
\* hit, answers with the cached payload and makes no upstream call, whatever
\* the cached payload is (null included)
C16_CachedReadNoUpstream ==
    \A e \in Event({"hit"}) :
        e.slot \in BlockMaps =>
            /\ tasks[Drainer].pc # "call"
            /\ \E i \in DOMAIN sent :
                    sent[i].type = "response" /\ sent[i].data = e.result


\* the head-state slot holds a value that was stored no longer than the TTL ago
StoredWithinTTL ==
    /\ cache.globalProperties # NullVal
    /\ now - cache.globalStoredAt < GlobalTTL

\* C17: a head-state read answers from the slot with no upstream call exactly
\* when a value is stored and its store time is within the TTL; an older value
\* is returned only after the read's own refresh attempt failed
C17_FreshIffServedFromSlot ==
    /\ \A e \in Event({"hit"}) : e.slot = "global" => StoredWithinTTL
    /\ \A e \in Event({"refresh"}) : e.slot = "global" => ~StoredWithinTTL


\* the bare form of a method name, and the other form of a read method's name
PrefixedReads == {Prefixed(b) : b \in BareReads}

BareOf == [m \in PrefixedReads |-> CHOOSE b \in BareReads : Prefixed(b) = m]

Bare(m) == IF m \in PrefixedReads THEN BareOf[m] ELSE m

Toggle(m) == IF m \in BareReads THEN Prefixed(m) ELSE Bare(m)

\* S with every pending request written in the other form of its method name
OtherForm(S) ==
    [S EXCEPT !.queue = [i \in DOMAIN S.queue |->
                            [S.queue[i] EXCEPT !.method = Toggle(S.queue[i].method)]],
              !.tasks[Drainer].method = Toggle(S.tasks[Drainer].method)]

\* the server state and the replies of a step, apart from the spelling of the
\* method names in the pending requests. On the wire a response has no method
\* key; with echo, the method an error frame echoes is read in its bare form
View(S, echo) ==
    [S EXCEPT !.queue = [i \in DOMAIN S.queue |->
                            [S.queue[i] EXCEPT !.method = Bare(S.queue[i].method)]],
              !.tasks[Drainer].method = Bare(S.tasks[Drainer].method),
              !.sent = [i \in DOMAIN S.sent |->
                            LET f == S.sent[i]
                            IN IF f.type = "response" THEN [f EXCEPT !.tag = ""]
                               ELSE IF f.type = "error" /\ echo
                               THEN [f EXCEPT !.tag = Bare(f.tag)]
                               ELSE f]]

\* what an upstream call in flight can settle to
Settlements ==
    {[ok |-> TRUE, val |-> Val(h, n), err |-> "none"] : h \in 0 .. 1, n \in Nodes}
        \cup {[ok |-> FALSE, val |-> NullVal, err |-> e] : e \in ErrKinds}

\* the read requests a client may send, in bare form
ReadRequests == {Frame(b, h, FALSE) : b \in BareReads, h \in 0 .. 1}

\* every handler step taken on a request in one form equals the step taken on
\* the same request in the other form
SameInBothForms(echo) ==
    /\ \A s \in TwoSessions, f \in ReadRequests :
            readyState[s] = "OPEN" =>
                View(onMessage(State, s, f), echo)
                    = View(onMessage(State, s, [f EXCEPT !.method = Prefixed(f.method)]), echo)
    /\ (tasks[Drainer].pc = "delay" /\ requestQueue # <<>>) =>
            View(DrainNext(State), echo) = View(DrainNext(OtherForm(State)), echo)
    /\ tasks[Drainer].pc = "call" =>
            \A r \in Settlements :
                View(Resume(State, Drainer, r), echo)
                    = View(Resume(OtherForm(State), Drainer, r), echo)

\* C18: a read method in bare form and in namespaced form gives the same reply
\* and the same state change, for the same params and the same server state
C18_SameReplyBothForms == SameInBothForms(FALSE)

\* C18 as amended: the same state change and the same reply, except that an
\* error frame echoes the method name in the form the client wrote
C18_SameReplyModuloEcho == SameInBothForms(TRUE)

\* a request in namespaced form was answered from the entry a read of the same
\* block had cached
C18_Witness ==
    /\ tasks[Drainer].method = Prefixed("get_block")
    /\ tasks[Drainer].pc = "delay"
    /\ \E e \in Event({"hit"}) : e.slot = "blocks"
    /\ \E i \in DOMAIN sent : sent[i].type = "response" /\ sent[i].to = tasks[Drainer].ws

\* the drainer's upstream call settles in this step, for a session that is no
\* longer open
SettlesForClosed ==
    /\ tasks[Drainer].pc = "call"
    /\ tasks'[Drainer].pc # "call"
    /\ readyState[tasks[Drainer].ws] # "OPEN"

\* C19: a session that closes while the upstream call of its request is in
\* flight leaves the call in flight; when the call settles its result is kept,
\* no frame goes to the session, and the drainer goes on to the next entry
C19_ReplyToClosedDropped ==
    /\ [][\A s \in Sessions :
            (/\ readyState[s] = "OPEN" /\ readyState'[s] # "OPEN"
             /\ tasks[Drainer].pc = "call" /\ tasks[Drainer].ws = s)
                => tasks'[Drainer] = tasks[Drainer]]_vars
    /\ [][SettlesForClosed =>
            /\ SentTo(sent', tasks[Drainer].ws) = <<>>
            /\ cache'.activeWitnesses # NullVal
            /\ tasks'[Drainer].pc = "delay"
            /\ isProcessingQueue'
            /\ requestQueue' = requestQueue]_vars
    /\ [][(/\ tasks[Drainer].pc = "delay" /\ tasks'[Drainer] # tasks[Drainer]
           /\ requestQueue # <<>>)
                => /\ requestQueue' = Tail(requestQueue)
                   /\ tasks'[Drainer].ws = Head(requestQueue).ws
                   /\ tasks'[Drainer].method = Head(requestQueue).method]_vars

\* the reply of a closed session was dropped while another request waited
C19_Witness ==
    /\ tasks[Drainer].pc = "delay"
    /\ tasks[Drainer].op = "getActiveWitnesses"
    /\ readyState[tasks[Drainer].ws] = "CLOSED"
    /\ \E e \in Event({"miss"}) : e.slot = "witness"
    /\ SentTo(sent, tasks[Drainer].ws) = <<>>
    /\ requestQueue # <<>>


\* session s is sent a pushed frame of the given type and tag in this step
Pushed(s, type, tag) ==
    \E i \in DOMAIN sent' :
        sent'[i].to = s /\ sent'[i].type = type /\ sent'[i].tag = tag

\* C20: pushed frames are outside the rate limit. A fan-out of the poll driver
\* reaches every open member of its feed, and a legacy broadcast every other
\* open session, whatever the session's frame counter; and no step other than
\* the arrival of a frame moves a session's counter
C20_PushesOutsideRateLimit ==
    /\ [][\A q \in PollIds, s \in Sessions :
            (/\ ~tasks[q].detected /\ tasks'[q].detected
             /\ readyState[s] = "OPEN" /\ s \in subscribers["global_properties"])
                => Pushed(s, "subscription_update", "global_properties")]_vars
    /\ [][\A f \in Feeds, s \in Sessions :
            (/\ \E q \in PollIds : tasks'[q] # tasks[q]
             /\ \E r \in Sessions : Pushed(r, "subscription_update", f)
             /\ readyState[s] = "OPEN" /\ s \in subscribers[f])
                => Pushed(s, "subscription_update", f)]_vars
    /\ [][\A q \in PollIds, s \in Sessions :
            (/\ tasks[q].pc # "idle" /\ tasks'[q].pc = "idle" /\ tasks'[q].detected
             /\ readyState[s] = "OPEN" /\ s \notin subscribers["global_properties"])
                => Pushed(s, "broadcast", "dynamic_global_properties_update")]_vars
    /\ [][\A s \in Sessions :
            (readyState[s] # "NONE" /\ budget'.frames = budget.frames)
                => rate'[s] = rate[s]]_vars

\* a head change was fanned out to a member whose counter is beyond the cap
C20_Witness ==
    \E q \in PollIds : \E s \in Sessions :
        /\ FannedOut(q)
        /\ s \in tasks[q].got["global_properties"]
        /\ rate[s].messageCount > MaxMessagesPerMinute


\* the step ran switchToHealthyNode
FailedOver == \E i \in DOMAIN events' : events'[i].slot = "switchToHealthyNode"

\* the drainer's read is with callSteemAPI: an attempt in flight or a back-off
InCaller == tasks[Drainer].pc \in {"call", "backoff"}

\* C21: callSteemAPI makes at most MaxRetries attempts and always ends; a
\* successful attempt ends it at once; a failed attempt before the last runs
\* switchToHealthyNode and sets the back-off timer to attempt seconds, then the
\* next attempt follows; a failed last attempt runs no failover and throws the
\* attempt's error as it is
C21_RetryingCaller ==
    /\ [](\A t \in TaskIds : tasks[t].attempt <= MaxRetries)
    /\ [][CallReturns(Drainer, 1) => (~InCaller' /\ ~FailedOver)]_vars
    /\ [][\A e \in ErrKinds :
            (CallFails(Drainer, e) /\ tasks[Drainer].attempt < MaxRetries)
                => /\ FailedOver
                   /\ tasks'[Drainer].pc = "backoff"
                   /\ tasks'[Drainer].wait = tasks[Drainer].attempt
                   /\ tasks'[Drainer].attempt = tasks[Drainer].attempt]_vars
    /\ [][BackoffEnds(Drainer)
            => /\ tasks'[Drainer].pc = "call"
               /\ tasks'[Drainer].attempt = tasks[Drainer].wait + 1]_vars
    /\ [][\A e \in ErrKinds :
            (CallFails(Drainer, e) /\ tasks[Drainer].attempt = MaxRetries)
                => /\ ~FailedOver
                   /\ ~InCaller'
                   /\ tasks[Drainer].op = "getBlock"
                        => \E i \in DOMAIN events' :
                              events'[i].kind = "error" /\ events'[i].slot = e]_vars
    /\ InCaller ~> ~InCaller

\* the last attempt of a block read failed and its error reached the dispatcher
C21_Witness ==
    /\ tasks[Drainer].attempt = MaxRetries
    /\ tasks[Drainer].op = "getBlock"
    /\ tasks[Drainer].pc = "delay"
    /\ \E e \in Event({"error"}) : e.slot \in ErrKinds


\* C22: after a failover of any kind, the current endpoint is one that passes the
\* eligibility filter (healthy, or last error older than the recovery window)
\* whenever some endpoint passes it.
C22_FailoverLandsOnEligible ==
    (Event({"failover"}) # {} /\ Eligible(State) # {}) =>
        currentNodeIndex \in Eligible(State)

\* the filter and the order of the selection, read off a health record
PassesFilter(r, t) == r.healthy \/ t - r.lastError > RecoveryWindow

Outranks(a, b) ==
    \/ a.healthy /\ ~b.healthy
    \/ a.healthy = b.healthy /\ a.errorCount < b.errorCount
    \/ /\ a.healthy = b.healthy /\ a.errorCount = b.errorCount
       /\ a.avgResponseTime < b.avgResponseTime

Passing == {n \in DOMAIN nodeHealth : PassesFilter(nodeHealth[n], now)}

\* C23: switchToHealthyNode moves to an endpoint that passes the filter (healthy, or
\* last error older than the recovery window) and that no passing endpoint outranks
\* (healthy first, then lower error count, then lower average latency); when no
\* endpoint passes it keeps the current endpoint and leaves the caches as they were.
C23_PicksBestEligible ==
    [][SwitchToHealthyNode =>
        IF Passing' = {}
        THEN currentNodeIndex' = currentNodeIndex /\ cache' = cache
        ELSE /\ currentNodeIndex' \in Passing'
             /\ \A m \in Passing' :
                    ~Outranks(nodeHealth'[m], nodeHealth'[currentNodeIndex'])]_vars

\* the selection has chosen an unhealthy endpoint past its window over one with more
\* errors, or has kept the current endpoint and a stored head
C23_Witness ==
    /\ budget.faults = 0 /\ DOMAIN nodeHealth = 0 .. (PickNodes - 1)
    /\ \/ /\ ~nodeHealth[currentNodeIndex].healthy
          /\ \E m \in Passing : Outranks(nodeHealth[currentNodeIndex], nodeHealth[m])
       \/ Passing = {} /\ cache.globalProperties # NullVal

\* a request the dispatcher rejected before any upstream call
RejectedUnsent ==
    \E i \in DOMAIN events' :
        /\ events'[i].kind = "error"
        /\ events'[i].slot \in {"missing_method", "required", "unsupported", "null_frame"}

\* C24: a request rejected without an upstream call (missing method, missing
\* argument, unsupported method name) leaves the current endpoint and every cache
\* slot and map as they were.
C24_RejectionLeavesPool ==
    [][RejectedUnsent => (currentNodeIndex' = currentNodeIndex /\ cache' = cache)]_vars

\* the step changes the health record of no endpoint but n
ChargedTo(n) == \A m \in Nodes \ {n} : nodeHealth'[m] = nodeHealth[m]

\* C25: the outcome of an upstream call is charged to the endpoint that served it:
\* when a caller's attempt or the health probe settles, no health record changes
\* but that of the endpoint the call was sent to.
C25_OutcomeChargedToServer ==
    /\ [][\A t \in TaskIds :
            (CallReturns(t, 1) \/ \E e \in ErrKinds : CallFails(t, e))
                => ChargedTo(tasks[t].node)]_vars
    /\ [][(ProbeReturns \/ ProbeFails) => ChargedTo(probe.node)]_vars

\* the values the cache holds: the two slots and the entries of the three maps
CachedValues ==
    ({cache.globalProperties, cache.activeWitnesses}
        \cup UNION {{m[i].value : i \in DOMAIN m} :
                        m \in {cache.blockHeaders, cache.blocks, cache.operations}})
    \ {NullVal}

\* C26: every value the cache holds was fetched from the endpoint that is current:
\* no value of an earlier endpoint outlives a switch, and no call in flight across
\* a switch stores its result afterwards.
C26_CacheOfCurrentEndpoint ==
    \A v \in CachedValues : v.src = currentNodeIndex

\* C27: a failed attempt raises the error count of the endpoint it was sent to by
\* exactly one and sets its last-error time; a successful attempt marks that
\* endpoint healthy and leaves its error count as it was.
C27_HealthUpdatePerAttempt ==
    /\ [][\A t \in TaskIds : (\E e \in ErrKinds : CallFails(t, e)) =>
            /\ nodeHealth'[tasks[t].node].errorCount
                    = nodeHealth[tasks[t].node].errorCount + 1
            /\ nodeHealth'[tasks[t].node].lastError = now]_vars
    /\ [][\A t \in TaskIds : CallReturns(t, 1) =>
            /\ nodeHealth'[tasks[t].node].healthy
            /\ nodeHealth'[tasks[t].node].errorCount
                    = nodeHealth[tasks[t].node].errorCount]_vars

\* a step in which handleMessage returns to processQueue: the drainer took an entry
\* and finished it at once, or the upstream call it awaited settled for the last time
HandlingEnds ==
    /\ tasks'[Drainer].pc = "delay"
    /\ \/ Settles
       \/ DelayEnds /\ requestQueue # <<>>
       \/ ~isProcessingQueue /\ isProcessingQueue'

\* the response and error frames the step wrote to session s
RepliesTo(s) == SelectSeq(SentTo(sent', s), LAMBDA f : f.type \in {"response", "error"})

QueuedFor(s) == \E i \in DOMAIN requestQueue : requestQueue[i].ws = s

\* C28: every admitted frame of a session that stays open is answered by exactly one
\* response or error frame that carries its id, whatever JSON value the frame parsed
\* to and whether the upstream call succeeds or exhausts its retries: the frame
\* leaves the queue, its handling ends, and when it ends the one reply is written.
C28_AdmittedFrameAnswered ==
    /\ [][HandlingEnds =>
            LET s == tasks'[Drainer].ws
            IN readyState'[s] = "OPEN" =>
                /\ Len(RepliesTo(s)) = 1
                /\ tasks'[Drainer].id = "7" => RepliesTo(s)[1].id = "7"]_vars
    /\ \A s \in Sessions : QueuedFor(s) ~> ~QueuedFor(s)
    /\ (tasks[Drainer].pc \in {"call", "backoff"}) ~> (tasks[Drainer].pc = "delay")

\* C29: the work queue never stalls: while it holds an entry a drainer is active
\* (isProcessingQueue is true), and a queue of any length eventually gets shorter, so
\* that every entry reaches the head and is removed, whatever the interleaving of
\* arrivals, closes and drainer steps.
C29_QueueNeverStalls ==
    /\ [](requestQueue # <<>> => isProcessingQueue)
    /\ \A n \in 1 .. MaxQueueSize :
            (Len(requestQueue) = n) ~> (Len(requestQueue) < n)

\* an entry waits behind a request whose call is being retried, its session closing
C29_Witness ==
    /\ requestQueue # <<>>
    /\ tasks[Drainer].pc = "backoff"
    /\ readyState[requestQueue[1].ws] = "CLOSING"

\* what identifies a request, in a queue entry and in the drainer's hands
Held(r) == <<r.ws, r.id, r.method, r.at, r.win>>

\* C30: frames are dispatched one at a time and in the order they were queued: there
\* is one drainer, running exactly while isProcessingQueue is set; while the handling
\* of a request is in progress no other request is taken; the drainer takes the head
\* of the queue and arrivals join at its tail.
C30_OneAtATimeInOrder ==
    /\ [](isProcessingQueue <=> tasks[Drainer].pc # "idle")
    /\ [][tasks[Drainer].pc \in {"call", "backoff"} =>
            /\ Held(tasks'[Drainer]) = Held(tasks[Drainer])
            /\ tasks'[Drainer].pc # "idle"]_vars
    /\ [][(DelayEnds /\ requestQueue # <<>>) =>
            /\ Held(tasks'[Drainer]) = Held(Head(requestQueue))
            /\ requestQueue' = Tail(requestQueue)]_vars
    /\ [][\A s \in Sessions : (Arrived(s) /\ isProcessingQueue) =>
            \/ requestQueue' = requestQueue
            \/ /\ Len(requestQueue') = Len(requestQueue) + 1
               /\ SubSeq(requestQueue', 1, Len(requestQueue)) = requestQueue
               /\ requestQueue'[Len(requestQueue')].ws = s]_vars

\* two requests of different sessions wait while the call of a third is in flight
C30_Witness ==
    /\ Len(requestQueue) = 2
    /\ requestQueue[1].ws # requestQueue[2].ws
    /\ tasks[Drainer].pc = "call"

\* a step in which the refresh that opens the poll iteration p returns or throws: at
\* the tick of the interval when the head slot is fresh, or when its call settles
RefreshEnds(p) ==
    /\ tasks'[p].pc # "backoff"
    /\ \/ PollStart(p) /\ tasks'[p].op # "getDynamicGlobalProperties"
       \/ /\ tasks[p].pc = "call" /\ tasks[p].op = "getDynamicGlobalProperties"
          /\ (CallReturns(p, 1) \/ \E e \in ErrKinds : CallFails(p, e))

\* C31: a poll iteration whose refresh leaves the head slot at the height it held
\* when the iteration started does nothing further: it ends there, writes no frame
\* (no subscription update, no legacy broadcast) and fetches no derived artifact.
C31_UnchangedHeadNoFanOut ==
    [][\A p \in PollIds :
        (RefreshEnds(p) /\ cache'.globalProperties.h = tasks'[p].prev) =>
            /\ tasks'[p].pc = "idle" /\ ~tasks'[p].detected
            /\ sent' = <<>>
            /\ \A m \in BlockMaps : cache'[m] = cache[m]]_vars

\* an iteration has ended after a refresh that the endpoint answered with the height
\* the head slot held already, a session being open
C31_Witness ==
    /\ \E e \in Event({"miss"}) : e.slot = "global" /\ e.prior.h = e.result.h /\ e.prior.h > 0
    /\ tasks[1].pc = "idle" /\ tasks[1].prev > 0
    /\ readyState[1] = "OPEN"

\* session s is a member of the head-state feed and its socket takes frames
Listening(s) == s \in subscribers["global_properties"] /\ readyState[s] = "OPEN"

\* C32: once the head slot holds height h, a session that stays subscribed to
\* global_properties and open eventually gets a subscription update of height h or
\* more, unless the slot comes to hold another height.
C32_SubscriberSeesStoredHead ==
    \A s \in Sessions, h \in 1 .. MaxHeight :
        (Listening(s) /\ cache.globalProperties.h = h)
            ~> \/ lastTwo[s]["global_properties"][2] >= h
               \/ ~Listening(s)
               \/ cache.globalProperties.h # h

\* the feed a cache map's artifact is fetched for
FeedOfMap(m) ==
    CASE m = "blockHeaders" -> "block_headers"
      [] m = "blocks" -> "blocks"
      [] OTHER -> "operations"

\* the block maps a poll iteration looked into or fetched for in this step
DerivedFetches ==
    IF \E p \in PollIds : tasks'[p] # tasks[p]
    THEN {events'[i].slot : i \in {j \in DOMAIN events' :
                /\ events'[j].kind \in {"hit", "miss"}
                /\ events'[j].slot \in BlockMaps}}
    ELSE {}

\* C33: the poll driver fetches a derived artifact (header, block, operations) only
\* for a feed that has a subscriber when it decides to fetch.
C33_DerivedFetchOnlyIfSubscribed ==
    [][\A m \in DerivedFetches : subscribers[FeedOfMap(m)] # {}]_vars

\* C34: at most one poll iteration is executing at any time: no iteration starts
\* while another awaits its refresh, a back-off or a derived fetch.
C34_OnePollIteration ==
    Cardinality({p \in PollIds : tasks[p].pc # "idle"}) <= 1

\* the step's refresh threw: no endpoint answered and the head slot was empty
RefreshThrew == \E i \in DOMAIN events' : events'[i].kind = "throw" /\ events'[i].slot = "global"

\* C35: a failed refresh does not stop the poll driver: the iteration ends, the pool
\* moves on to the next endpoint, and the interval starts further iterations (every
\* iteration ends; with the head slot empty the next one sends a new refresh).
C35_PollSurvivesFailure ==
    /\ [][\A p \in PollIds : (RefreshEnds(p) /\ RefreshThrew) =>
            /\ tasks'[p].pc = "idle"
            /\ currentNodeIndex' # currentNodeIndex
            /\ currentNodeIndex' = (currentNodeIndex + 1) % NumNodes]_vars
    /\ (tasks[1].pc # "idle") ~> (tasks[1].pc = "idle")
    /\ (tasks[1].pc = "idle" /\ cache.globalProperties = NullVal)
            ~> (tasks[1].pc = "call" \/ cache.globalProperties # NullVal)

\* an iteration has just ended in the callback's catch: its refresh threw after the
\* last attempt and the pool was rotated
C35_Witness ==
    /\ tasks[1].pc = "idle" /\ tasks[1].attempt = MaxRetries
    /\ \E e \in Event({"throw"}) : e.slot = "global"
    /\ \E e \in Event({"failover"}) : e.slot = "switchNode" /\ e.result.src = currentNodeIndex

\* C36: the health probe runs the failover procedure if and only if its
\* head-state call fails.  A probe whose call returns, however late, marks the
\* current endpoint healthy and neither changes the current endpoint nor
\* clears any cache; a probe whose call fails marks the current endpoint
\* unhealthy and runs switchToHealthyNode, which moves to another endpoint and
\* clears the caches whenever an endpoint is eligible.
ProbeFailover == {events'[i] : i \in {j \in DOMAIN events' :
                      events'[j].kind = "failover" /\ events'[j].slot = "switchToHealthyNode"}}

C36_ProbeFailoverIffFails ==
    /\ [][ProbeReturns =>
            /\ currentNodeIndex' = currentNodeIndex
            /\ cache' = cache
            /\ ProbeFailover = {}
            /\ nodeHealth'[currentNodeIndex].healthy]_vars
    /\ [][ProbeFails =>
            /\ ProbeFailover # {}
            /\ ~nodeHealth'[currentNodeIndex].healthy
            /\ nodeHealth'[currentNodeIndex].errorCount = nodeHealth[currentNodeIndex].errorCount + 1
            /\ \A e \in ProbeFailover :
                    IF e.prior.h > 0
                    THEN /\ currentNodeIndex' # currentNodeIndex
                         /\ currentNodeIndex' = e.result.src
                         /\ cache' = EmptyCache
                    ELSE /\ currentNodeIndex' = currentNodeIndex
                         /\ cache' = cache]_vars

\* a probe's call has just failed while another endpoint was eligible: the
\* bridge has moved to that endpoint and the caches are empty
C36_Witness ==
    /\ probe.pc = "idle"
    /\ sent = <<>>
    /\ Len(events) = 1
    /\ events[1].kind = "failover" /\ events[1].slot = "switchToHealthyNode"
    /\ events[1].prior.src = probe.node
    /\ events[1].result.src # probe.node
    /\ currentNodeIndex = events[1].result.src
    /\ cache = EmptyCache
    /\ \A t \in {Drainer} \cup PollIds : tasks[t].pc # "backoff"
\* the sessions that a subscription update of feed f is written to in this step
WrittenTo(f) == {sent'[i].to : i \in {j \in DOMAIN sent' :
                    sent'[j].type = "subscription_update" /\ sent'[j].tag = f}}

\* this step answers a request of session s with a response frame tagged m
Answers(s, m) == \E i \in DOMAIN sent' :
                    sent'[i].to = s /\ sent'[i].type = "response" /\ sent'[i].tag = m

WitnessStores == {events'[i].result : i \in {j \in DOMAIN events' :
                      events'[j].kind = "miss" /\ events'[j].slot = "witness"}}

\* the sessions a witnesses broadcast writes to in this step (the current
\* value sent to a session with the answer to its subscribe is no broadcast)
WitnessBroadcast ==
    IF \E s \in Sessions : Answers(s, "subscribe_witnesses")
    THEN {}
    ELSE WrittenTo("witnesses")

\* C38 as stated: a witness-list refresh that returns the list that was last
\* delivered to a subscriber broadcasts nothing to that subscriber.
C38_SameListNotRedelivered ==
    [][\A s \in WitnessBroadcast :
            lastTwo[s]["witnesses"][2] # 0 =>
                lastTwo'[s]["witnesses"][2] # lastTwo[s]["witnesses"][2]]_vars

\* C38: a witnesses update is broadcast when, and only when, a witness-list
\* refresh stores a list that differs from the value of the list slot at that
\* moment, which is empty after a failover has cleared the caches, and the
\* feed has a subscriber: the update then goes to every open subscriber.  A
\* refresh that returns the list the slot holds, a cache hit, a stale answer
\* and a failed refresh broadcast nothing.
C38_BroadcastOnCachedChange ==
    [][/\ \A w \in WitnessStores :
            WitnessBroadcast =
                IF w.h # cache.activeWitnesses.h
                THEN {s \in subscribers["witnesses"] : readyState[s] = "OPEN"}
                ELSE {}
       /\ WitnessStores = {} => WitnessBroadcast = {}]_vars

\* a refresh after the TTL has just stored the list the slot already held,
\* with the session subscribed and open and no failover since the start: the
\* session got the response and no subscription update
C38_Witness ==
    /\ readyState[1] = "OPEN" /\ 1 \in subscribers["witnesses"]
    /\ budget.faults = FreshFaults /\ budget.probes = FreshProbes
    /\ \E e \in Event({"miss"}) : e.slot = "witness" /\ e.prior.h # 0 /\ e.prior.h = e.result.h
    /\ \E i \in DOMAIN sent : sent[i].type = "response" /\ sent[i].tag = "get_active_witnesses"
    /\ ~\E i \in DOMAIN sent : sent[i].type = "subscription_update"
\* the drainer's timer fires and the entry it takes from the queue is the
\* registry request m (subscribe_ or unsubscribe_ and a feed) of an open session s
TakesRegistryRequest(s, m) ==
    /\ DelayEnds
    /\ requestQueue # <<>>
    /\ requestQueue[1].ws = s /\ requestQueue[1].method = m
    /\ readyState[s] = "OPEN"

\* C39: the registry operations are idempotent and total.  A subscribe of
\* session s to feed f leaves f's set equal to the old set with s in it, so a
\* second subscribe changes nothing; an unsubscribe leaves f's set equal to
\* the old set without s, so the unsubscribe of a non-member changes no set;
\* both leave the other feeds' sets alone and are answered with a response
\* frame and no error frame, member or not.
C39_RegistryIdempotentTotal ==
    /\ [][\A s \in Sessions, f \in Feeds :
            /\ Answers(s, "subscribe_" \o f) =>
                    subscribers' = [subscribers EXCEPT ![f] = @ \cup {s}]
            /\ Answers(s, "unsubscribe_" \o f) =>
                    subscribers' = [subscribers EXCEPT ![f] = @ \ {s}]]_vars
    /\ [][\A s \in Sessions, f \in Feeds : \A m \in {"subscribe_" \o f, "unsubscribe_" \o f} :
            TakesRegistryRequest(s, m) =>
                /\ Answers(s, m)
                /\ \A i \in DOMAIN sent' : sent'[i].type # "error"]_vars

\* the first frame of the run, an unsubscribe of a session that is no member of
\* the feed, has just been answered with a response: every set is still empty
C39_Witness ==
    /\ budget.frames = QueueFrames - 1
    /\ \A f \in Feeds : subscribers[f] = {}
    /\ \E i \in DOMAIN sent : sent[i].type = "response" /\ sent[i].tag = "unsubscribe_blocks"
\* the keys of a cache map
KeysOf(map) == {map[i].key : i \in DOMAIN map}

\* the entries of a map other than that of key k, in insertion order
Others(map, k) == SelectSeq(map, LAMBDA e : e.key # k)

\* C40: a store of key k into a map at its size bound evicts exactly one
\* entry, the one inserted first, and then sets k with the current time; a
\* store into a map below the bound evicts nothing.  In both cases the other
\* entries stay as they were and in their order, the map holds one entry for
\* k, and a key that was absent after the eviction is the newest entry.
C40_StoreEvictsOldestAtBound ==
    [][\A k \in StoreKeys, n \in Nodes : SetCacheItem(k, n) =>
        LET old == cache.operations
            new == cache'.operations
            put == [key |-> k, value |-> Val(k.h, n), timestamp |-> now]
        IN /\ IF Len(old) >= MaxCacheSize
              THEN /\ KeysOf(old) \ KeysOf(new) = {old[1].key} \ {k}
                   /\ Others(new, k) = Others(Tail(old), k)
                   /\ Len(new) <= MaxCacheSize
              ELSE /\ KeysOf(old) \subseteq KeysOf(new)
                   /\ Others(new, k) = Others(old, k)
           /\ Cardinality({i \in DOMAIN new : new[i].key = k}) = 1
           /\ \E i \in DOMAIN new : new[i] = put
           /\ (k \notin KeysOf(old) \/ (Len(old) >= MaxCacheSize /\ old[1].key = k))
                    => new[Len(new)] = put]_vars

\* a full map has just taken a key it did not hold: its first entry, stored
\* before now, is gone, its second entry is now the first and the new entry,
\* stamped now, is the last
C40_Witness ==
    /\ \E e \in Event({"store"}) : e.slot = "operations" /\ e.prior.h = MaxCacheSize
    /\ Len(cache.operations) = MaxCacheSize
    /\ cache.operations[MaxCacheSize].timestamp = now
    /\ \A i \in 1 .. (MaxCacheSize - 1) : cache.operations[i].timestamp < now
====
